---- MODULE Spec2Model ----
(***************************************************************************)
(* A model of the motion-control core of the robot library:                *)
(*   - QPSolver (src/Math/src/QPSolver.cpp): the interior-point solver and *)
(*     the least-squares formulations built on it;                         *)
(*   - SerialKinematicControl (src/Control/src/SerialKinematicControl.cpp):*)
(*     the resolved-rate control law that calls the solver;                *)
(*   - Joint (src/Model/include/Joint.h): the update of a joint's pose.    *)
(*                                                                         *)
(* Numbers.  A float v is the integer v*Unit (fixed point); products and   *)
(* quotients round toward zero, and a value that becomes smaller than      *)
(* 1/Unit becomes 0, as a float underflows.  A division by zero, which in  *)
(* float arithmetic yields inf/NaN, sets the flag `nonfinite`: from then   *)
(* on every comparison of the loop is false, as it is for a NaN.           *)
(* Vectors are sequences, matrices are sequences of rows.                  *)
(***************************************************************************)
EXTENDS Integers, Sequences, FiniteSets, TLC

\* Resolution of the fixed-point numbers: 1.0 is Unit.
Unit == 100

\* The dimension of the task space, the 6 of Eigen::Matrix<float,6,1> and of
\* the test `n <= 6`, scaled down.
TaskDim == 1

\* QPSolver::steps, the iteration cap of the interior-point method.
steps == 3

\* The largest magnitude of the fixed-point numbers: beyond it a product or a
\* quotient is held at this value.
Huge == 200000000

VARIABLES
    \* ---- QPSolver: the running call ----
    pc,         \* "idle" | "loop" | "shrink" | "return" | "done"
    entry,      \* the public entry point that was called
    arg,        \* its arguments
    qp,         \* [H, f, B, c, x0]: the arguments of the inner solve(H,f,B,c,x0)
    x, x_prev,  \* solve: current and previous iterate
    u, beta,    \* solve: barrier weight and its decay rate
    alpha,      \* solve: step size
    d,          \* solve: distance to each constraint
    dx,         \* solve: Newton step
    it,         \* solve: the loop counter i
    jj,         \* solve: the counter j of the step-size loop
    nonfinite,  \* solve: x holds inf/NaN
    ret,        \* the value returned
    status,     \* "none" | "running" | "returned" | "fault" | "undefined"
    \* ---- SerialKinematicControl ----
    n,          \* number of joints
    k,          \* proportional gain
    q, qdot,    \* joint positions and velocities
    J,          \* Jacobian snapshot (TaskDim x n)
    endpoint,   \* endpoint pose snapshot
    lim,        \* [p, v, a, dt]: position, speed, acceleration limits; time step
    op,         \* the control operation that ran last
    cmd,        \* its result: [st, val]
    opin,       \* its arguments (and, for set_proportional_gain, the gain before it)
    \* ---- Joint ----
    joint       \* a joint of the arm: its type, limits, offset, pose and axis

qpvars   == <<pc, entry, arg, qp, x, x_prev, u, beta, alpha, d, dx, it, jj,
             nonfinite, ret, status>>
ctrlvars == <<n, k, q, qdot, J, endpoint, lim, op, cmd, opin, joint>>
vars     == <<qpvars, ctrlvars>>

---------------------------------------------------------------------------
(* Fixed-point arithmetic                                                  *)

Abs(a) == IF a < 0 THEN -a ELSE a

Sign(a) == IF a < 0 THEN -1 ELSE IF a > 0 THEN 1 ELSE 0

\* a/b rounded toward zero, b # 0
Div(a, b) == Sign(a) * Sign(b) * (Abs(a) \div Abs(b))

\* v, held within the range of the representation
Saturate(v) == IF v > Huge THEN Huge ELSE IF v < -Huge THEN -Huge ELSE v

\* the float product a*b
Mul(a, b) ==
    LET hi == Abs(a) \div Unit
        lo == Abs(a) % Unit
        low == lo * (Abs(b) \div Unit) + (lo * (Abs(b) % Unit)) \div Unit
    IN  IF hi > 0 /\ Abs(b) > Huge \div hi
        THEN Sign(a) * Sign(b) * Huge
        ELSE Saturate(Sign(a) * Sign(b) * (hi * Abs(b) + low))

\* the float quotient a/b, b # 0
FDiv(a, b) ==
    LET q0 == Abs(a) \div Abs(b)
        r0 == Abs(a) % Abs(b)
        fr == IF r0 <= Huge \div Unit THEN (r0 * Unit) \div Abs(b)
                                     ELSE r0 \div (Abs(b) \div Unit)
    IN  IF q0 > Huge \div Unit
        THEN Sign(a) * Sign(b) * Huge
        ELSE Saturate(Sign(a) * Sign(b) * (q0 * Unit + fr))

RECURSIVE IsqrtIter(_, _, _)
IsqrtIter(v, lo, hi) ==
    IF lo >= hi THEN lo
    ELSE LET mid == (lo + hi + 1) \div 2
         IN  IF mid * mid <= v THEN IsqrtIter(v, mid, hi)
                               ELSE IsqrtIter(v, lo, mid - 1)

\* floor of the square root of a natural number
Isqrt(v) == IsqrtIter(v, 0, IF v < 46340 THEN v ELSE 46340)

\* the float sqrt(a), a >= 0
Sqrt(a) == IF a > Huge \div Unit THEN Isqrt(a) * Isqrt(Unit) ELSE Isqrt(a * Unit)

Max(a, b) == IF a >= b THEN a ELSE b
Min(a, b) == IF a <= b THEN a ELSE b

---------------------------------------------------------------------------
(* Dense linear algebra (Eigen)                                            *)

Rows(M) == Len(M)
Cols(M) == Len(M[1])

ZeroVec(m) == [i \in 1..m |-> 0]
Identity(m) == [i \in 1..m |-> [j \in 1..m |-> IF i = j THEN Unit ELSE 0]]

RECURSIVE SumTo(_, _)
SumTo(s, i) == IF i = 0 THEN 0 ELSE s[i] + SumTo(s, i - 1)
Sum(s) == SumTo(s, Len(s))

VecAdd(a, b) == [i \in 1..Len(a) |-> a[i] + b[i]]
VecSub(a, b) == [i \in 1..Len(a) |-> a[i] - b[i]]
VecNeg(a) == [i \in 1..Len(a) |-> -a[i]]
VecScale(s, a) == [i \in 1..Len(a) |-> Mul(s, a[i])]
Dot(a, b) == Sum([i \in 1..Len(a) |-> Mul(a[i], b[i])])
\* the largest magnitude among the entries of a
RECURSIVE MaxAbsTo(_, _)
MaxAbsTo(a, i) == IF i = 0 THEN 0 ELSE Max(Abs(a[i]), MaxAbsTo(a, i - 1))
\* the Euclidean norm; entries too large to square are scaled down first
Norm(a) ==
    LET sc == MaxAbsTo(a, Len(a)) \div 20000 + 1
    IN  sc * Isqrt(Sum([i \in 1..Len(a) |-> (a[i] \div sc) * (a[i] \div sc)]))

MatVec(M, v) == [i \in 1..Rows(M) |-> Dot(M[i], v)]
MatAdd(M, P) == [i \in 1..Rows(M) |-> VecAdd(M[i], P[i])]
MatScale(s, M) == [i \in 1..Rows(M) |-> VecScale(s, M[i])]
Transpose(M) == [j \in 1..Cols(M) |-> [i \in 1..Rows(M) |-> M[i][j]]]
MatMul(M, P) ==
    [i \in 1..Rows(M) |-> [j \in 1..Cols(P) |->
        Sum([l \in 1..Cols(M) |-> Mul(M[i][l], P[l][j])])]]
Outer(a, b) == [i \in 1..Len(a) |-> [j \in 1..Len(b) |-> Mul(a[i], b[j])]]

Head_(v, m) == SubSeq(v, 1, m)
Tail_(v, m) == SubSeq(v, Len(v) - m + 1, Len(v))

SwapRows(s, i, j) ==
    [r \in 1..Len(s) |-> IF r = i THEN s[j] ELSE IF r = j THEN s[i] ELSE s[r]]

\* the first row at or below kk whose entry in column kk is largest in magnitude
PivotRow(M, kk) ==
    CHOOSE p \in kk..Len(M) :
        /\ \A r \in kk..Len(M) : Abs(M[r][kk]) <= Abs(M[p][kk])
        /\ \A r \in kk..(p - 1) : Abs(M[r][kk]) < Abs(M[p][kk])

\* Gaussian elimination with row pivoting of the system M*x = b, from column kk
RECURSIVE Eliminate(_, _, _)
Eliminate(M, b, kk) ==
    IF kk > Len(M) THEN [ok |-> TRUE, M |-> M, b |-> b]
    ELSE LET p  == PivotRow(M, kk)
             M1 == SwapRows(M, kk, p)
             b1 == SwapRows(b, kk, p)
         IN  IF M1[kk][kk] = 0 THEN [ok |-> FALSE, M |-> M, b |-> b]
             ELSE LET l(r) == FDiv(M1[r][kk], M1[kk][kk])
                      M2 == [r \in 1..Len(M) |->
                               IF r <= kk THEN M1[r]
                               ELSE [c \in 1..Len(M) |->
                                       IF c = kk THEN 0
                                       ELSE M1[r][c] - Mul(l(r), M1[kk][c])]]
                      b2 == [r \in 1..Len(M) |->
                               IF r <= kk THEN b1[r]
                               ELSE b1[r] - Mul(l(r), b1[kk])]
                  IN  Eliminate(M2, b2, kk + 1)

\* back substitution of the upper-triangular system U*x = y, rows i..1
RECURSIVE BackSub(_, _, _, _)
BackSub(U, y, i, xs) ==
    IF i = 0 THEN xs
    ELSE LET s  == Sum([j \in 1..Len(y) |->
                          IF j > i THEN Mul(U[i][j], xs[j]) ELSE 0])
             xi == FDiv(y[i] - s, U[i][i])
         IN  BackSub(U, y, i - 1, [xs EXCEPT ![i] = xi])

\* I.partialPivLu().solve(b): [ok, x]; ok is FALSE when a pivot is zero, and
\* the float result then holds inf/NaN
PartialPivLuSolve(M, b) ==
    LET e == Eliminate(M, b, 1)
    IN  IF e.ok THEN [ok |-> TRUE, x |-> BackSub(e.M, e.b, Len(b), ZeroVec(Len(b)))]
        ELSE [ok |-> FALSE, x |-> ZeroVec(Len(b))]

---------------------------------------------------------------------------
(* QPSolver: the tuning parameters (members of the class)                  *)

alpha0   == Unit             \* initial step size, 1.0
alphaMod == Unit \div 2      \* step-size shrink factor, 0.5
beta0    == Unit \div 2      \* initial decay rate of the barrier weight
betaMod  == Unit \div 2      \* moves beta toward 1 after a violation
tol      == Unit \div 50     \* tolerance on the step size
u0       == Unit             \* initial barrier weight
uMod     == 2 * Unit         \* increases the barrier weight after a violation

\* the literal 1E-02 a violated distance is replaced by
DFloor == Unit \div 100

---------------------------------------------------------------------------
(* QPSolver::solve(H,f,B,c,x0): min 0.5*x'*H*x - x'*f subject to B*x >= c  *)

\* the shape check of solve(H,f,B,c,x0)
SolveShapesOK(H, f, B, c, x0) ==
    ~(Rows(H) # Len(x0) \/ Cols(H) # Len(x0) \/ Len(f) # Len(x0)
        \/ Rows(B) # Len(c))

\* u/(d*d), the weight of a constraint in the Hessian
HessianWeight(uu, dj) == FDiv(FDiv(uu, dj), dj)

\* One pass of the loop over the constraints, from constraint j on.
\* acc = [u, d, g, I, violation, divzero]
RECURSIVE Accumulate(_, _, _, _, _)
Accumulate(B, c, xx, j, acc) ==
    IF j > Rows(B) THEN acc
    ELSE LET dist == Dot(B[j], xx) - c[j]
             viol == dist < 0
             dj   == IF viol THEN DFloor ELSE dist
             uj   == IF viol THEN Mul(acc.u, uMod) ELSE acc.u
         IN  Accumulate(B, c, xx, j + 1,
               [u         |-> uj,
                d         |-> [acc.d EXCEPT ![j] = dj],
                g         |-> IF dj = 0 THEN acc.g
                              ELSE VecAdd(acc.g, VecScale(-FDiv(uj, dj), B[j])),
                I         |-> IF dj = 0 THEN acc.I
                              ELSE MatAdd(acc.I,
                                     MatScale(HessianWeight(uj, dj), Outer(B[j], B[j]))),
                violation |-> acc.violation \/ viol,
                divzero   |-> acc.divzero \/ dj = 0])

\* the first constraint at or after j that the step alpha*dx would violate,
\* or 0 when there is none
FirstBlocked(B, dd, a, step, j) ==
    IF \E i \in j..Rows(B) : dd[i] + Mul(a, Dot(B[i], step)) < 0
    THEN CHOOSE i \in j..Rows(B) :
           /\ dd[i] + Mul(a, Dot(B[i], step)) < 0
           /\ \A l \in j..(i - 1) : ~(dd[l] + Mul(a, Dot(B[l], step)) < 0)
    ELSE 0

\* the value returned by the entry point from the last iterate of solve
Extract(e, a, xx) ==
    IF e = "least_squares_eq_box" THEN Tail_(xx, Cols(a.A)) ELSE xx

\* solve(H,f,B,c,x0) is entered with problem p
EnterSolve(p) ==
    IF ~SolveShapesOK(p.H, p.f, p.B, p.c, p.x0)
    THEN /\ pc' = "return"
         /\ status' = "running" /\ ret' = <<>>
         /\ x' = p.x0 /\ x_prev' = p.x0
         /\ UNCHANGED <<u, beta, alpha, d, dx, it, jj, nonfinite>>
    ELSE /\ pc' = "loop"
         /\ status' = "running" /\ ret' = <<>>
         /\ x' = p.x0 /\ x_prev' = p.x0
         /\ dx' = ZeroVec(Len(p.x0))
         /\ beta' = beta0 /\ u' = u0
         /\ d' = ZeroVec(Rows(p.B))
         /\ it' = 0 /\ jj' = 0 /\ alpha' = 0
         /\ nonfinite' = FALSE

\* the decay rate is raised by betaMod itself
DecayRaisedByStep(b) == b + betaMod

\* beta += betaMod*(1.0 - beta): the decay rate after a violation
SlowedDecay(b) == b + Mul(betaMod, Unit - b)

\* the loop never leaves: the iteration cap is lost
LoopUncapped(i) == TRUE

\* i < this->steps, the condition of the interior-point loop
LoopContinues(i) == i < steps

\* The head of the interior-point loop and the body up to the Newton step
LoopHead ==
    /\ pc = "loop"
    /\ IF ~LoopContinues(it)
       THEN /\ pc' = "return"
            /\ UNCHANGED <<x, x_prev, u, beta, alpha, d, dx, it, jj, nonfinite>>
       ELSE IF nonfinite
       THEN \* every distance is NaN: no comparison holds, nothing is finite
            /\ pc' = "shrink" /\ alpha' = alpha0 /\ jj' = 1
            /\ UNCHANGED <<x, x_prev, u, beta, d, dx, it, nonfinite>>
       ELSE LET acc == Accumulate(qp.B, qp.c, x, 1,
                          [u |-> u, d |-> d, g |-> ZeroVec(Len(x)), I |-> qp.H,
                           violation |-> FALSE, divzero |-> FALSE])
                xx  == IF acc.violation THEN x_prev ELSE x
                bb  == IF acc.violation THEN SlowedDecay(beta) ELSE beta
                g   == VecAdd(acc.g, VecSub(MatVec(qp.H, xx), qp.f))
                lu  == PartialPivLuSolve(acc.I, VecNeg(g))
            IN  /\ pc' = "shrink"
                /\ x' = xx /\ beta' = bb /\ u' = acc.u /\ d' = acc.d
                /\ dx' = lu.x
                /\ nonfinite' = (acc.divzero \/ ~lu.ok)
                /\ alpha' = alpha0 /\ jj' = 1
                /\ UNCHANGED <<x_prev, it>>
    /\ UNCHANGED <<entry, arg, qp, ret, status, ctrlvars>>

\* One execution of the body of the while loop: alpha *= alphaMod
Shrink ==
    /\ pc = "shrink"
    /\ ~nonfinite
    /\ FirstBlocked(qp.B, d, alpha, dx, jj) # 0
    /\ jj' = FirstBlocked(qp.B, d, alpha, dx, jj)
    /\ alpha' = Mul(alpha, alphaMod)
    /\ UNCHANGED <<pc, entry, arg, qp, x, x_prev, u, beta, d, dx, it, nonfinite,
                   ret, status, ctrlvars>>

\* The step-size loop is left: the exit test and the update of the iterate
Update ==
    /\ pc = "shrink"
    /\ nonfinite \/ FirstBlocked(qp.B, d, alpha, dx, jj) = 0
    /\ IF ~nonfinite /\ Mul(alpha, Norm(dx)) < tol
       THEN /\ pc' = "return"
            /\ UNCHANGED <<x, x_prev, u, it>>
       ELSE /\ pc' = "loop"
            /\ x_prev' = x
            /\ x' = VecAdd(x, VecScale(alpha, dx))
            /\ u' = Mul(u, beta)
            /\ it' = it + 1
    /\ UNCHANGED <<entry, arg, qp, beta, alpha, d, dx, jj, nonfinite, ret, status,
                   ctrlvars>>

\* an entry point returns v at once
GiveBack(v) ==
    /\ pc' = "done" /\ ret' = v /\ status' = "returned"
    /\ UNCHANGED <<x, x_prev, u, beta, alpha, d, dx, it, jj, nonfinite>>

\* values a read outside a buffer may produce
Garbage(m) == {[i \in 1..m |-> v] : v \in {-7 * Unit, 0, 3 * Unit}}

\* An operation on Eigen objects of mismatched sizes: the build with assertions
\* aborts, the build without them reads or writes outside the operands.
Undefined(m) ==
    /\ pc' = "done"
    /\ \/ status' = "fault" /\ ret' = <<>>
       \/ status' = "undefined" /\ ret' \in Garbage(m)
    /\ UNCHANGED <<x, x_prev, u, beta, alpha, d, dx, it, jj, nonfinite>>

\* solve(H,f,B,c,x0) called by the user
solve(H, f, B, c, x0) ==
    /\ pc = "idle"
    /\ entry' = "solve"
    /\ arg' = [H |-> H, f |-> f, B |-> B, c |-> c, x0 |-> x0]
    /\ qp' = [H |-> H, f |-> f, B |-> B, c |-> c, x0 |-> x0]
    /\ IF SolveShapesOK(H, f, B, c, x0) /\ Cols(B) # Len(x0)
       THEN Undefined(Len(x0))     \* bt[j].dot(x), I += ...*btb[j]
       ELSE EnterSolve([H |-> H, f |-> f, B |-> B, c |-> c, x0 |-> x0])

\* B = [-I; I] and c = [-xMax; xMin], the box xMin <= x <= xMax as B*x >= c
BoxB(m) == MatScale(-Unit, Identity(m)) \o Identity(m)
BoxC(xMin, xMax) == VecNeg(xMax) \o xMin

\* the shape checks of least_squares(y,A,W,xMin,xMax,x0)
LeastSquaresBoxShapesOK(y, A, W, xMin, xMax, x0) ==
    /\ ~(Len(y) # Rows(A) \/ Len(x0) # Cols(A) \/ Len(xMin) # Cols(A)
           \/ Len(xMax) # Cols(A) \/ Len(x0) # Cols(A))
    /\ ~(Rows(W) # Rows(A) \/ Cols(W) # Rows(A))

\* the problem least_squares(y,A,W,xMin,xMax,x0) hands to solve
LeastSquaresBoxProblem(y, A, W, xMin, xMax, x0) ==
    LET AtW == MatMul(Transpose(A), W)
    IN  [H |-> MatMul(AtW, A), f |-> MatVec(AtW, y),
         B |-> BoxB(Cols(A)), c |-> BoxC(xMin, xMax), x0 |-> x0]

\* least_squares(y,A,W,xMin,xMax,x0): min 0.5*(y-A*x)'*W*(y-A*x), xMin <= x <= xMax
least_squares_box(y, A, W, xMin, xMax, x0) ==
    /\ pc = "idle"
    /\ entry' = "least_squares_box"
    /\ arg' = [y |-> y, A |-> A, W |-> W, xMin |-> xMin, xMax |-> xMax, x0 |-> x0]
    /\ IF ~LeastSquaresBoxShapesOK(y, A, W, xMin, xMax, x0)
       THEN GiveBack(x0) /\ UNCHANGED qp
       ELSE /\ qp' = LeastSquaresBoxProblem(y, A, W, xMin, xMax, x0)
            /\ EnterSolve(LeastSquaresBoxProblem(y, A, W, xMin, xMax, x0))

\* the shape checks of least_squares(xd,W,y,A,xMin,xMax,x0)
LeastSquaresEqBoxShapesOK(xd, W, y, A, x0) ==
    /\ ~(Len(xd) # Cols(A) \/ Len(y) # Rows(A) \/ Len(x0) # Cols(A))
    /\ ~(Rows(W) # Cols(A) \/ Cols(W) # Cols(A))

\* H = [0 A; A' W]
SaddleH(A, W) ==
    [i \in 1..(Rows(A) + Cols(A)) |-> [j \in 1..(Rows(A) + Cols(A)) |->
        IF i <= Rows(A) /\ j <= Rows(A) THEN 0
        ELSE IF i <= Rows(A) THEN A[i][j - Rows(A)]
        ELSE IF j <= Rows(A) THEN A[j][i - Rows(A)]
        ELSE W[i - Rows(A)][j - Rows(A)]]]

\* B = [0 -I; 0 I]
SaddleB(m, nn) ==
    [i \in 1..(2 * nn) |-> [j \in 1..(m + nn) |->
        IF j <= m THEN 0 ELSE BoxB(nn)[i][j - m]]]

\* the head of f is left at zero instead of y
EqBoxProblemWithoutTask(xd, W, y, A, xMin, xMax, x0) ==
    [H |-> SaddleH(A, W), f |-> ZeroVec(Rows(A)) \o MatVec(W, xd),
     B |-> SaddleB(Rows(A), Cols(A)), c |-> BoxC(xMin, xMax),
     x0 |-> ZeroVec(Rows(A)) \o x0]

\* the problem least_squares(xd,W,y,A,xMin,xMax,x0) hands to solve
LeastSquaresEqBoxProblem(xd, W, y, A, xMin, xMax, x0) ==
    [H |-> SaddleH(A, W), f |-> y \o MatVec(W, xd),
     B |-> SaddleB(Rows(A), Cols(A)), c |-> BoxC(xMin, xMax),
     x0 |-> ZeroVec(Rows(A)) \o x0]

\* least_squares(xd,W,y,A,xMin,xMax,x0):
\* min 0.5*(xd-x)'*W*(xd-x) subject to A*x = y, xMin <= x <= xMax
least_squares_eq_box(xd, W, y, A, xMin, xMax, x0) ==
    /\ pc = "idle"
    /\ entry' = "least_squares_eq_box"
    /\ arg' = [xd |-> xd, W |-> W, y |-> y, A |-> A, xMin |-> xMin,
               xMax |-> xMax, x0 |-> x0]
    /\ IF ~LeastSquaresEqBoxShapesOK(xd, W, y, A, x0)
       THEN GiveBack(x0) /\ UNCHANGED qp
       ELSE IF Len(xMax) # Cols(A) \/ Len(xMin) # Cols(A)
       THEN Undefined(Cols(A)) /\ UNCHANGED qp  \* c.head(n) = -xMax; c.tail(n) = xMin
       ELSE /\ qp' = LeastSquaresEqBoxProblem(xd, W, y, A, xMin, xMax, x0)
            /\ EnterSolve(LeastSquaresEqBoxProblem(xd, W, y, A, xMin, xMax, x0))

\* the end of solve and of the entry point that called it
Return ==
    /\ pc = "return"
    /\ pc' = "done"
    /\ status' = "returned"
    /\ ret' = Extract(entry, arg, x)
    /\ UNCHANGED <<entry, arg, qp, x, x_prev, u, beta, alpha, d, dx, it, jj,
                   nonfinite, ctrlvars>>

\* solve_linear_system(f,H,x0) of solve(H,f,x0): the solution of H*x = f, and
\* x0 when H is singular
SolveLinearSystem(f, H, x0) ==
    IF PartialPivLuSolve(H, f).ok THEN PartialPivLuSolve(H, f).x ELSE x0

\* the shape checks of least_squares(y,A,W,x0)
LeastSquaresShapesOK(y, A, W, x0) ==
    /\ ~(Len(y) # Rows(A) \/ Len(x0) # Cols(A))
    /\ ~(Rows(W) # Rows(A) \/ Cols(W) # Rows(A))

\* least_squares(y,A,W,x0): min 0.5*(y-A*x)'*W*(y-A*x)
least_squares(y, A, W, x0) ==
    /\ pc = "idle"
    /\ entry' = "least_squares"
    /\ arg' = [y |-> y, A |-> A, W |-> W, x0 |-> x0]
    /\ IF ~LeastSquaresShapesOK(y, A, W, x0)
       THEN GiveBack(x0)
       ELSE LET AtW == MatMul(Transpose(A), W)
            IN  GiveBack(SolveLinearSystem(MatVec(AtW, y), MatMul(AtW, A), x0))
    /\ UNCHANGED qp

\* the x block of the solution of [0 A; A' W]*[lambda; x] = [y; W*xd], which
\* the QR decomposition and the back substitution compute; x0 when it fails
SaddleSolution(xd, W, y, A, x0) ==
    LET lu == PartialPivLuSolve(SaddleH(A, W), y \o MatVec(W, xd))
    IN  IF lu.ok THEN Tail_(lu.x, Cols(A)) ELSE x0

\* least_squares(xd,W,y,A,x0): min 0.5*(xd-x)'*W*(xd-x) subject to A*x = y
least_squares_eq(xd, W, y, A, x0) ==
    /\ pc = "idle"
    /\ entry' = "least_squares_eq"
    /\ arg' = [xd |-> xd, W |-> W, y |-> y, A |-> A, x0 |-> x0]
    /\ IF ~LeastSquaresEqBoxShapesOK(xd, W, y, A, x0)
       THEN GiveBack(x0)
       ELSE GiveBack(SaddleSolution(xd, W, y, A, x0))
    /\ UNCHANGED qp

---------------------------------------------------------------------------
(* The calls a user of QPSolver makes                                      *)

Vec1(a) == <<a * Unit>>
Mat1(a) == <<<<a * Unit>>>>
Vec2(a, b) == <<a * Unit, b * Unit>>

\* constraint sets B*x >= c on one unknown
Constraints1 ==
    { [B |-> <<<<Unit>>>>, c |-> Vec1(0)],                  \* x >= 0
      [B |-> <<<<Unit>>>>, c |-> Vec1(1)],                  \* x >= 1
      [B |-> <<<<-Unit>>>>, c |-> Vec1(-1)],                \* x <= 1
      [B |-> BoxB(1), c |-> BoxC(Vec1(-1), Vec1(1))],       \* -1 <= x <= 1
      [B |-> BoxB(1), c |-> BoxC(Vec1(0), Vec1(2))],        \* 0 <= x <= 2
      [B |-> <<<<Unit>>, <<Unit>>>>, c |-> Vec2(0, 1)] }    \* x >= 0, x >= 1

\* well-shaped calls of solve(H,f,B,c,x0)
SolveCalls ==
    { [H |-> Mat1(h), f |-> Vec1(ff), B |-> bc.B, c |-> bc.c, x0 |-> Vec1(xs)] :
        h \in {1, 2}, ff \in {-6, -2, 0, 2, 6}, bc \in Constraints1,
        xs \in {-2, -1, 0, 1, 2} }
    \cup
    { [H |-> Identity(2), f |-> Vec2(fa, fb), B |-> BoxB(2),
       c |-> BoxC(Vec2(-1, -1), Vec2(1, 1)), x0 |-> Vec2(xs, 0)] :
        fa \in {-3, 2}, fb \in {0, 3}, xs \in {0, 2} }

\* calls of solve(H,f,B,c,x0) with one argument of the wrong shape
SolveMisshapen ==
    LET ok == [H |-> Mat1(1), f |-> Vec1(2), B |-> BoxB(1),
               c |-> BoxC(Vec1(-1), Vec1(1)), x0 |-> Vec1(0)]
    IN  { [ok EXCEPT !.H = Identity(2)],
          [ok EXCEPT !.H = <<<<Unit, 0>>>>],
          [ok EXCEPT !.f = Vec2(2, 2)],
          [ok EXCEPT !.c = Vec1(-1)],
          [ok EXCEPT !.B = <<<<-Unit, 0>>, <<Unit, 0>>>>],
          [ok EXCEPT !.x0 = Vec2(0, 0)] }

UserSolve ==
    /\ \E p \in SolveCalls \cup SolveMisshapen : solve(p.H, p.f, p.B, p.c, p.x0)
    /\ UNCHANGED ctrlvars

\* well-shaped calls of least_squares(y,A,W,xMin,xMax,x0)
BoxCalls ==
    { [y |-> Vec1(yy), A |-> Mat1(a), W |-> Mat1(1), xMin |-> Vec1(lo),
       xMax |-> Vec1(lo + 2), x0 |-> Vec1(xs)] :
        yy \in {-2, 2, 6}, a \in {1, 2}, lo \in {-1, 0}, xs \in {-2, 0, 1, 2} }

BoxMisshapen ==
    LET ok == [y |-> Vec1(2), A |-> Mat1(1), W |-> Mat1(1), xMin |-> Vec1(-1),
               xMax |-> Vec1(1), x0 |-> Vec1(0)]
    IN  { [ok EXCEPT !.y = Vec2(2, 2)],
          [ok EXCEPT !.A = <<<<Unit, 0>>>>],
          [ok EXCEPT !.W = Identity(2)],
          [ok EXCEPT !.xMin = Vec2(-1, -1)],
          [ok EXCEPT !.xMax = Vec2(1, 1)],
          [ok EXCEPT !.x0 = Vec2(0, 0)] }

UserLeastSquaresBox ==
    /\ \E p \in BoxCalls \cup BoxMisshapen :
          least_squares_box(p.y, p.A, p.W, p.xMin, p.xMax, p.x0)
    /\ UNCHANGED ctrlvars

\* well-shaped calls of least_squares(xd,W,y,A,xMin,xMax,x0)
EqBoxCalls ==
    { [xd |-> Vec1(0), W |-> Mat1(1), y |-> Vec1(yy), A |-> Mat1(1),
       xMin |-> Vec1(-1), xMax |-> Vec1(1), x0 |-> Vec1(xs)] :
        yy \in {-2, 0, 1}, xs \in {-2, 0, 1} }

EqBoxMisshapen ==
    LET ok == [xd |-> Vec1(0), W |-> Mat1(1), y |-> Vec1(0), A |-> Mat1(1),
               xMin |-> Vec1(-1), xMax |-> Vec1(1), x0 |-> Vec1(0)]
    IN  { [ok EXCEPT !.xd = Vec2(0, 0)],
          [ok EXCEPT !.W = Identity(2)],
          [ok EXCEPT !.y = Vec2(0, 0)],
          [ok EXCEPT !.A = <<<<Unit, 0>>>>],
          [ok EXCEPT !.xMin = Vec2(-1, -1)],
          [ok EXCEPT !.xMax = Vec2(1, 1)],
          [ok EXCEPT !.x0 = Vec2(0, 0)] }

UserLeastSquaresEqBox ==
    /\ \E p \in EqBoxCalls \cup EqBoxMisshapen :
          least_squares_eq_box(p.xd, p.W, p.y, p.A, p.xMin, p.xMax, p.x0)
    /\ UNCHANGED ctrlvars

UserLeastSquares ==
    /\ \E p \in BoxCalls \cup BoxMisshapen : least_squares(p.y, p.A, p.W, p.x0)
    /\ UNCHANGED ctrlvars

UserLeastSquaresEq ==
    /\ \E p \in EqBoxCalls \cup EqBoxMisshapen :
          least_squares_eq(p.xd, p.W, p.y, p.A, p.x0)
    /\ UNCHANGED ctrlvars

\* the call is over: its locals are discarded
Discard ==
    /\ pc' = "idle" /\ entry' = "none" /\ arg' = <<>> /\ qp' = <<>>
    /\ x' = <<>> /\ x_prev' = <<>> /\ u' = 0 /\ beta' = 0 /\ alpha' = 0
    /\ d' = <<>> /\ dx' = <<>> /\ it' = 0 /\ jj' = 0 /\ nonfinite' = FALSE
    /\ ret' = <<>> /\ status' = "none"

Forget ==
    /\ pc = "done"
    /\ Discard
    /\ UNCHANGED ctrlvars

QPInit ==
    /\ pc = "idle" /\ entry = "none" /\ arg = <<>> /\ qp = <<>>
    /\ x = <<>> /\ x_prev = <<>> /\ u = 0 /\ beta = 0 /\ alpha = 0
    /\ d = <<>> /\ dx = <<>> /\ it = 0 /\ jj = 0 /\ nonfinite = FALSE
    /\ ret = <<>> /\ status = "none"

\* limits of a joint that turns one unit either way
Limits == [p |-> <<-Unit, Unit>>, v |-> Unit, a |-> Unit \div 4, dt |-> Unit \div 2]

\* a controller that is not used
CtrlIdle ==
    /\ n = 1 /\ k = Unit /\ q = <<0>> /\ qdot = <<0>> /\ J = <<<<Unit>>>>
    /\ endpoint = <<>> /\ lim = Limits
    /\ joint = <<>>
    /\ op = "none" /\ cmd = [st |-> "none"] /\ opin = <<>>

InitQP == QPInit /\ CtrlIdle

NextQP ==
    \/ UserSolve
    \/ UserLeastSquaresBox
    \/ UserLeastSquaresEqBox
    \/ UserLeastSquares
    \/ UserLeastSquaresEq
    \/ LoopHead
    \/ Shrink
    \/ Update
    \/ Return
    \/ Forget

SpecQP == InitQP /\ [][NextQP]_vars

\* the loop head is left: LoopHead is the one step at pc = "loop", it can
\* always be taken and it always changes pc
LeaveLoop == pc = "loop" /\ pc' \in {"shrink", "return"}

\* the step-size loop is left: Update is the one step that changes pc at
\* pc = "shrink", and this is its guard
LeaveShrink ==
    /\ pc = "shrink"
    /\ nonfinite \/ FirstBlocked(qp.B, d, alpha, dx, jj) = 0
    /\ pc' \in {"loop", "return"}

\* solve runs on once called: the statement it has reached is executed
SpecQPFair ==
    /\ InitQP /\ [][NextQP]_vars
    /\ WF_pc(LeaveLoop) /\ WF_vars(Shrink) /\ WF_pc(LeaveShrink) /\ WF_vars(Return)

---------------------------------------------------------------------------
(* SerialKinematicControl: the kinematic state it reads                    *)

\* pLim[i], vLim[i], aLim[i] and dt, set by the base class from the joints and
\* the control frequency
pLim(i) == lim.p
vLim(i) == lim.v
aLim(i) == lim.a
dt      == lim.dt

get_joint_velocities == qdot
get_joint_velocity(i) == qdot[i + 1]
get_joint_position(i) == q[i + 1]
get_jacobian == J
get_endpoint_pose == endpoint
\* the joint-space inertia matrix of the base class
get_inertia == Identity(n)

\* the literals 0.9 and 0.5
NineTenths == (9 * Unit) \div 10
Half == Unit \div 2

\* 0.9*get_joint_velocities()
Damped == VecScale(NineTenths, get_joint_velocities)

Vector(v) == [st |-> "vector", val |-> v]

---------------------------------------------------------------------------
(* SerialKinematicControl::set_proportional_gain                           *)

\* the gain stored by set_proportional_gain(gain) when the gain before is kk
\* the zero gain is stored like any other
StoredGainZeroKept(gain, kk) == IF gain < 0 THEN -gain ELSE gain

\* the gain is stored with its sign
StoredGainSigned(gain, kk) == IF gain = 0 THEN kk ELSE gain

StoredGain(gain, kk) ==
    IF gain = 0 THEN kk
    ELSE IF gain < 0 THEN -1 * gain
    ELSE gain

\* the value returned by set_proportional_gain(gain)
GainAccepted(gain) == IF gain = 0 THEN FALSE ELSE TRUE

set_proportional_gain(gain) ==
    /\ pc = "idle" /\ op = "none"
    /\ op' = "set_proportional_gain"
    /\ opin' = [gain |-> gain, k |-> k]
    /\ k' = StoredGain(gain, k)
    /\ cmd' = [st |-> "bool", val |-> GainAccepted(gain)]
    /\ UNCHANGED <<n, q, qdot, J, endpoint, lim, joint, qpvars>>

---------------------------------------------------------------------------
(* SerialKinematicControl::get_speed_limit, get_joint_penalty              *)

\* the limits of the speed come from the speed limit alone
SpeedLimitOfMotorOnly(i) == [lower |-> -vLim(i), upper |-> vLim(i)]

\* each bound is computed from the position limit on the other side
SpeedLimitFromFarSide(i) ==
    LET qi == q[i + 1]
    IN  [lower |-> Max(FDiv(pLim(i)[2] - qi, dt), -vLim(i)),
         upper |-> Min(FDiv(pLim(i)[1] - qi, dt), vLim(i))]

\* get_speed_limit(lower, upper, i): the values written to lower and upper.
\* The square root of a negative number is NaN, and std::max(v, NaN) and
\* std::min(v, NaN) are v.
get_speed_limit(i) ==
    LET qi == q[i + 1]
        pl == FDiv(pLim(i)[1] - qi, dt)
        vl == -vLim(i)
        al == -Mul(2 * Unit, Sqrt(Mul(aLim(i), qi - pLim(i)[1])))
        pu == FDiv(pLim(i)[2] - qi, dt)
        vu == vLim(i)
        au == Mul(2 * Unit, Sqrt(Mul(aLim(i), pLim(i)[2] - qi)))
    IN  [lower |-> Max(pl, IF Sign(aLim(i)) * Sign(qi - pLim(i)[1]) < 0
                           THEN vl ELSE Max(vl, al)),
         upper |-> Min(pu, IF Sign(aLim(i)) * Sign(pLim(i)[2] - qi) < 0
                           THEN vu ELSE Min(vu, au))]

\* xMin and xMax of move_at_speed
SpeedLower == [i \in 1..n |-> get_speed_limit(i - 1).lower]
SpeedUpper == [i \in 1..n |-> get_speed_limit(i - 1).upper]

\* the penalty is returned whatever the direction of motion
PenaltyInEveryDirection(i) ==
    FDiv(Mul(pLim(i)[2] - pLim(i)[1], pLim(i)[2] - pLim(i)[1]),
         Mul(4 * (pLim(i)[2] - get_joint_position(i)), get_joint_position(i) - pLim(i)[1]))

get_joint_penalty(i) ==
    LET qi    == get_joint_position(i)
        lower == qi - pLim(i)[1]
        upper == pLim(i)[2] - qi
        range == pLim(i)[2] - pLim(i)[1]
        dpdq  == FDiv(Mul(Mul(range, range), 2 * qi - pLim(i)[2] - pLim(i)[1]),
                      Mul(Mul(Mul(4 * upper, upper), lower), lower))
    IN  IF Mul(dpdq, get_joint_velocity(i)) > 0
        THEN FDiv(Mul(range, range), Mul(4 * upper, lower))
        ELSE Unit

\* clamp v into [lo, hi] the way the joint-space controllers do
Clamp(v, lo, hi) == IF v < lo THEN lo ELSE IF v > hi THEN hi ELSE v

---------------------------------------------------------------------------
(* SerialKinematicControl::get_pose_error                                  *)

\* A pose is [t, R]: a translation and a rotation matrix with integer entries.
\* A quaternion is <<w, x, y, z>>, each entry twice its value, so that the
\* quaternions of the rotations used here have integer entries.

\* Eigen::Quaternionf(R) of a rotation matrix R
QuaternionOf(R) ==
    LET t == R[1][1] + R[2][2] + R[3][3]
    IN  IF t > 0
        THEN LET tt == Isqrt(4 * (t + 1))          \* 2*sqrt(t + 1)
             IN  << tt \div 2,
                    Div(2 * (R[3][2] - R[2][3]), tt),
                    Div(2 * (R[1][3] - R[3][1]), tt),
                    Div(2 * (R[2][1] - R[1][2]), tt) >>
        ELSE LET i0 == IF R[2][2] > R[1][1] THEN 2 ELSE 1
                 i  == IF R[3][3] > R[i0][i0] THEN 3 ELSE i0
                 j  == (i % 3) + 1
                 kk == (j % 3) + 1
                 tt == Isqrt(R[i][i] - R[j][j] - R[kk][kk] + 1)
                 vec == [c \in 1..3 |->
                           IF c = i THEN tt
                           ELSE IF c = j THEN Div(R[j][i] + R[i][j], tt)
                           ELSE Div(R[kk][i] + R[i][kk], tt)]
             IN  << Div(R[kk][j] - R[j][kk], tt), vec[1], vec[2], vec[3] >>

QConjugate(a) == << a[1], -a[2], -a[3], -a[4] >>

\* the product of two quaternions: entries are four times their value
QProduct(a, b) ==
    << a[1] * b[1] - a[2] * b[2] - a[3] * b[3] - a[4] * b[4],
       a[1] * b[2] + a[2] * b[1] + a[3] * b[4] - a[4] * b[3],
       a[1] * b[3] + a[3] * b[1] + a[4] * b[2] - a[2] * b[4],
       a[1] * b[4] + a[4] * b[1] + a[2] * b[3] - a[3] * b[2] >>

QDot(a, b) == a[1] * b[1] + a[2] * b[2] + a[3] * b[3] + a[4] * b[4]

\* qe.vec() as floats
QVec(e) == << Div(e[2] * Unit, 4), Div(e[3] * Unit, 4), Div(e[4] * Unit, 4) >>

\* the error quaternion is formed without the conjugate
PoseErrorNoConjugate(desired, actual) ==
    LET qd == QuaternionOf(desired.R)
        qa == QuaternionOf(actual.R)
        qe == QProduct(qd, qa)
    IN  VecSub(desired.t, actual.t)
          \o (IF QDot(qd, qa) <= 0 THEN QVec(qe) ELSE VecNeg(QVec(qe)))

get_pose_error(desired, actual) ==
    LET qd == QuaternionOf(desired.R)
        qa == QuaternionOf(actual.R)
        qe == QProduct(qd, QConjugate(qa))
    IN  VecSub(desired.t, actual.t)
          \o (IF QDot(qd, qa) <= 0 THEN QVec(qe) ELSE VecNeg(QVec(qe)))

\* the rotations that map the coordinate axes to coordinate axes cyclically
Rotations ==
    { [i \in 1..3 |-> [j \in 1..3 |->
          IF j = ((i + sh - 1) % 3) + 1 THEN sg[i] ELSE 0]] :
        sh \in 0..2,
        sg \in { <<1, 1, 1>>, <<1, -1, -1>>, <<-1, 1, -1>>, <<-1, -1, 1>> } }

Poses ==
    { [t |-> <<a * Unit, 0, b * Unit>>, R |-> R] :
        a \in {0, 1}, b \in {0, 2}, R \in Rotations }

\* the first TaskDim entries of a twist
Twist(v) == Head_(v, TaskDim)

---------------------------------------------------------------------------
(* SerialKinematicControl::singularity_avoidance                           *)

Trace(M) == Sum([i \in 1..Rows(M) |-> M[i][i]])

\* the matrix M without row 1 and column c
Minor(M, c) ==
    [i \in 1..(Rows(M) - 1) |-> [j \in 1..(Rows(M) - 1) |->
        M[i + 1][IF j < c THEN j ELSE j + 1]]]

RECURSIVE Determinant(_)
Determinant(M) ==
    IF Rows(M) = 1 THEN M[1][1]
    ELSE Sum([c \in 1..Rows(M) |->
               (IF c % 2 = 1 THEN 1 ELSE -1) * Mul(M[1][c], Determinant(Minor(M, c)))])

\* get_pseudoinverse(J) of the base class: J'*(J*J')^-1, zero when J*J' is singular
get_pseudoinverse(Jm) ==
    LET JJt == MatMul(Jm, Transpose(Jm))
        col(c) == PartialPivLuSolve(JJt, [r \in 1..Rows(Jm) |-> Jm[r][c]])
    IN  [c \in 1..Cols(Jm) |-> [r \in 1..Rows(Jm) |->
            IF col(c).ok THEN col(c).x[r] ELSE 0]]

\* get_partial_derivative(J,i) of the base class: the derivative of the
\* Jacobian with respect to joint i, a snapshot like the Jacobian itself
get_partial_derivative(Jm, i) ==
    [r \in 1..Rows(Jm) |-> [c \in 1..Cols(Jm) |-> IF c > i THEN -Half ELSE 0]]

\* the gradient is computed for the first joint as for the others
GradientFromFirstJoint(scalar) ==
    IF scalar <= 0 THEN ZeroVec(n)
    ELSE LET Jm   == get_jacobian
             invJ == get_pseudoinverse(Jm)
             mu   == Sqrt(Determinant(MatMul(Jm, Transpose(Jm))))
         IN  [i \in 1..n |->
                Mul(Mul(scalar, mu),
                    Trace(MatMul(get_partial_derivative(Jm, i - 1), invJ)))]

singularity_avoidance(scalar) ==
    IF scalar <= 0 THEN ZeroVec(n)
    ELSE LET Jm   == get_jacobian
             invJ == get_pseudoinverse(Jm)
             mu   == Sqrt(Determinant(MatMul(Jm, Transpose(Jm))))
         IN  [i \in 1..n |->
                IF i = 1 THEN 0
                ELSE Mul(Mul(scalar, mu),
                         Trace(MatMul(get_partial_derivative(Jm, i - 1), invJ)))]

---------------------------------------------------------------------------
(* SerialKinematicControl: the control operations                          *)

Pending == [st |-> "pending"]

\* W of move_at_speed: the inertia with the joint penalties on its diagonal
PenalisedInertia ==
    [i \in 1..n |-> [j \in 1..n |->
        IF i = j THEN get_inertia[i][j] + get_joint_penalty(i - 1) - Unit
                 ELSE get_inertia[i][j]]]

\* the solver of the pose-only task starts from the redundant task
MoveAtSpeedFromRedundant(vel, redundant) ==
    IF Len(redundant) # n
    THEN /\ cmd' = Vector(Damped)
         /\ UNCHANGED qpvars
    ELSE IF n <= TaskDim
    THEN /\ cmd' = Pending
         /\ least_squares_box(vel, get_jacobian, Identity(n), SpeedLower,
                              SpeedUpper, redundant)
    ELSE /\ cmd' = Pending
         /\ least_squares_eq_box(redundant, PenalisedInertia, vel, get_jacobian,
                                 SpeedLower, SpeedUpper, get_joint_velocities)

\* move_at_speed(vel, redundant), without the record of the call
MoveAtSpeed(vel, redundant) ==
    IF Len(redundant) # n
    THEN /\ cmd' = Vector(Damped)
         /\ UNCHANGED qpvars
    ELSE IF n <= TaskDim
    THEN /\ cmd' = Pending
         /\ least_squares_box(vel, get_jacobian, Identity(n), SpeedLower,
                              SpeedUpper, VecScale(Half, VecAdd(SpeedLower, SpeedUpper)))
    ELSE /\ cmd' = Pending
         /\ least_squares_eq_box(redundant, PenalisedInertia, vel, get_jacobian,
                                 SpeedLower, SpeedUpper, get_joint_velocities)

\* move_at_speed(vel), without the record of the call
MoveAtSpeedDefault(vel) ==
    IF n <= TaskDim THEN MoveAtSpeed(vel, ZeroVec(n))
    ELSE MoveAtSpeed(vel, singularity_avoidance(Half))

\* the command that is returned is kept as the joint velocity
FrameCommandKept ==
    /\ qdot' = (IF cmd'.st = "vector" /\ Len(cmd'.val) = n THEN cmd'.val ELSE qdot)
    /\ UNCHANGED <<n, k, q, J, endpoint, lim, joint>>

Frame == UNCHANGED <<n, k, q, qdot, J, endpoint, lim, joint>>

move_at_speed1(vel) ==
    /\ pc = "idle" /\ op = "none"
    /\ op' = "move_at_speed1" /\ opin' = [vel |-> vel]
    /\ MoveAtSpeedDefault(vel)
    /\ Frame

move_at_speed(vel, redundant) ==
    /\ pc = "idle" /\ op = "none"
    /\ op' = "move_at_speed" /\ opin' = [vel |-> vel, redundant |-> redundant]
    /\ MoveAtSpeed(vel, redundant)
    /\ Frame

\* the solver has returned to the control operation that called it
Deliver ==
    /\ pc = "done" /\ cmd = Pending
    /\ cmd' = [st  |-> IF status = "returned"
                       THEN (IF nonfinite THEN "nonfinite" ELSE "vector")
                       ELSE status,
               val |-> ret]
    /\ Discard
    /\ UNCHANGED <<op, opin>>
    /\ Frame

\* every pivot is divided by, a pivot of zero giving an infinite quotient
RECURSIVE SolveJointsNoFallback(_, _, _, _)
SolveJointsNoFallback(y, U, i, qd) ==
    IF i < 0 THEN qd
    ELSE LET sum   == Sum([j \in 1..n |->
                             IF j > i + 1 THEN Mul(U[i + 1][j], qd[j]) ELSE 0])
             v     == IF U[i + 1][i + 1] = 0
                      THEN (IF y[i + 1] - sum >= 0 THEN Huge ELSE -Huge)
                      ELSE FDiv(y[i + 1] - sum, U[i + 1][i + 1])
             lower == get_speed_limit(i).upper
             upper == get_speed_limit(i).lower
         IN  SolveJointsNoFallback(y, U, i - 1,
                                   [qd EXCEPT ![i + 1] = Clamp(v, lower, upper)])

\* the joint velocities solve_joint_control(y,U) resolves, joints i..0
RECURSIVE SolveJoints(_, _, _, _)
SolveJoints(y, U, i, qd) ==
    IF i < 0 THEN qd
    ELSE LET sum   == Sum([j \in 1..n |->
                             IF j > i + 1 THEN Mul(U[i + 1][j], qd[j]) ELSE 0])
             v     == IF Abs(U[i + 1][i + 1]) < Unit \div 100000 + 1
                      THEN Mul(NineTenths, get_joint_velocity(i))
                      ELSE FDiv(y[i + 1] - sum, U[i + 1][i + 1])
             \* get_speed_limit(upper, lower, i)
             lower == get_speed_limit(i).upper
             upper == get_speed_limit(i).lower
         IN  SolveJoints(y, U, i - 1, [qd EXCEPT ![i + 1] = Clamp(v, lower, upper)])

solve_joint_control(y, U) ==
    /\ pc = "idle" /\ op = "none"
    /\ op' = "solve_joint_control" /\ opin' = [y |-> y, U |-> U]
    /\ cmd' = IF Len(y) # n THEN Vector(Damped)
              ELSE IF Rows(U) # n \/ Cols(U) # n THEN Vector(Damped)
              ELSE Vector(SolveJoints(y, U, n - 1, ZeroVec(n)))
    /\ Frame /\ UNCHANGED qpvars

\* the feedback is returned without a look at the speed limits
JointFeedbackUnlimited(ff, pos) ==
    [i \in 1..n |-> ff[i] + Mul(k, pos[i] - q[i])]

\* the feedback is taken from the target toward the joint
JointFeedbackReversed(ff, pos) ==
    [i \in 1..n |->
        Clamp(ff[i] + Mul(k, q[i] - pos[i]),
              get_speed_limit(i - 1).lower, get_speed_limit(i - 1).upper)]

\* proportional feedback on each joint, limited to the speed limits
JointFeedback(ff, pos) ==
    [i \in 1..n |->
        Clamp(ff[i] + Mul(k, pos[i] - q[i]),
              get_speed_limit(i - 1).lower, get_speed_limit(i - 1).upper)]

move_to_position(pos) ==
    /\ pc = "idle" /\ op = "none"
    /\ op' = "move_to_position" /\ opin' = [pos |-> pos]
    /\ cmd' = IF Len(pos) # n THEN Vector(Damped)
              ELSE Vector(JointFeedback(ZeroVec(n), pos))
    /\ Frame /\ UNCHANGED qpvars

track_joint_trajectory(pos, vel) ==
    /\ pc = "idle" /\ op = "none"
    /\ op' = "track_joint_trajectory" /\ opin' = [pos |-> pos, vel |-> vel]
    /\ cmd' = IF Len(pos) # n \/ Len(vel) # n THEN Vector(Damped)
              ELSE Vector(JointFeedback(vel, pos))
    /\ Frame /\ UNCHANGED qpvars

\* move_joints(vel) of track_joint_trajectory(pos,vel,acc): the joint speeds
\* limited to the speed limits
move_joints(vel) ==
    [i \in 1..n |->
        Clamp(vel[i], get_speed_limit(i - 1).lower, get_speed_limit(i - 1).upper)]

track_joint_trajectory_acc(pos, vel, acc) ==
    /\ pc = "idle" /\ op = "none"
    /\ op' = "track_joint_trajectory_acc"
    /\ opin' = [pos |-> pos, vel |-> vel, acc |-> acc]
    /\ cmd' = IF Len(pos) # n \/ Len(vel) # n \/ Len(acc) # n
              THEN Vector(ZeroVec(n))
              ELSE Vector(move_joints(VecAdd(vel, VecScale(k, VecSub(pos, q)))))
    /\ Frame /\ UNCHANGED qpvars

move_to_pose1(pose) ==
    /\ pc = "idle" /\ op = "none"
    /\ op' = "move_to_pose1" /\ opin' = [pose |-> pose]
    /\ MoveAtSpeedDefault(Twist(VecScale(k, get_pose_error(pose, get_endpoint_pose))))
    /\ Frame

move_to_pose(pose, redundancy) ==
    /\ pc = "idle" /\ op = "none"
    /\ op' = "move_to_pose" /\ opin' = [pose |-> pose, redundant |-> redundancy]
    /\ IF Len(redundancy) # n
       THEN cmd' = Vector(Damped) /\ UNCHANGED qpvars
       ELSE MoveAtSpeed(Twist(VecScale(k, get_pose_error(pose, get_endpoint_pose))),
                        redundancy)
    /\ Frame

track_cartesian_trajectory1(pose, vel) ==
    /\ pc = "idle" /\ op = "none"
    /\ op' = "track_cartesian_trajectory1" /\ opin' = [pose |-> pose, vel |-> vel]
    /\ MoveAtSpeedDefault(
          VecAdd(vel, Twist(VecScale(k, get_pose_error(pose, get_endpoint_pose)))))
    /\ Frame

track_cartesian_trajectory(pose, vel, redundant) ==
    /\ pc = "idle" /\ op = "none"
    /\ op' = "track_cartesian_trajectory"
    /\ opin' = [pose |-> pose, vel |-> vel, redundant |-> redundant]
    /\ IF Len(redundant) # n
       THEN cmd' = Vector(Damped) /\ UNCHANGED qpvars
       ELSE MoveAtSpeed(
              VecAdd(vel, Twist(VecScale(k, get_pose_error(pose, get_endpoint_pose)))),
              redundant)
    /\ Frame

---------------------------------------------------------------------------
(* SerialKinematicControl: the helpers, called on their own                *)

call_singularity_avoidance(scalar) ==
    /\ pc = "idle" /\ op = "none"
    /\ op' = "singularity_avoidance" /\ opin' = [scalar |-> scalar]
    /\ cmd' = Vector(singularity_avoidance(scalar))
    /\ Frame /\ UNCHANGED qpvars

call_get_joint_penalty(i) ==
    /\ pc = "idle" /\ op = "none"
    /\ op' = "get_joint_penalty" /\ opin' = [i |-> i]
    /\ cmd' = [st |-> "float", val |-> get_joint_penalty(i)]
    /\ Frame /\ UNCHANGED qpvars

call_get_pose_error(desired) ==
    /\ pc = "idle" /\ op = "none"
    /\ op' = "get_pose_error" /\ opin' = [desired |-> desired]
    /\ cmd' = Vector(get_pose_error(desired, get_endpoint_pose))
    /\ Frame /\ UNCHANGED qpvars

call_get_speed_limit(i) ==
    /\ pc = "idle" /\ op = "none"
    /\ op' = "get_speed_limit" /\ opin' = [i |-> i]
    /\ cmd' = [st |-> "limits", val |-> get_speed_limit(i)]
    /\ Frame /\ UNCHANGED qpvars

---------------------------------------------------------------------------
(* The controller in use                                                   *)

Gains == { -2 * Unit, -Half, 0, Half, 2 * Unit }

Twists == [1..TaskDim -> { -Unit, Half }]

\* joint-space vectors of the right size, and one entry too long
JointVectors == { ZeroVec(n), [i \in 1..n |-> Half], [i \in 1..n |-> -Unit] }
JointArguments == JointVectors \cup { ZeroVec(n + 1) }

\* upper-triangular matrices of the right size, a singular one, a misshapen one
JointMatrices ==
    { Identity(n),
      [i \in 1..n |-> [j \in 1..n |-> IF j >= i THEN 2 * Unit ELSE 0]],
      [i \in 1..n |-> [j \in 1..n |-> IF j > i THEN Unit ELSE 0]],
      [i \in 1..n |-> [j \in 1..n |-> IF j >= i /\ i < n THEN Unit ELSE 0]],
      Identity(n + 1) }

Home == [t |-> <<0, 0, 0>>, R |-> [i \in 1..3 |-> [j \in 1..3 |-> IF i = j THEN 1 ELSE 0]]]

TargetPoses ==
    { p \in Poses : p.R \in { Home.R, <<<<0, 1, 0>>, <<0, 0, 1>>, <<1, 0, 0>>>> }
                    /\ p.t[3] = 0 }

\* the caller takes the command it was returned
Consume ==
    /\ pc = "idle" /\ op # "none" /\ cmd # Pending
    /\ op' = "none" /\ opin' = <<>> /\ cmd' = [st |-> "none"]
    /\ Frame /\ UNCHANGED qpvars

InitCtrl ==
    /\ QPInit
    /\ n \in { TaskDim, TaskDim + 1 }
    /\ k = Unit
    /\ \E q0 \in { -((3 * Unit) \div 4), 0, Half } : q = [i \in 1..n |-> q0]
    /\ \E v0 \in { -Half, Half } : qdot = [i \in 1..n |-> v0]
    /\ J = [r \in 1..TaskDim |-> [c \in 1..n |-> IF c = r THEN Unit ELSE Half]]
    /\ endpoint = Home
    /\ lim = Limits
    /\ joint = <<>>
    /\ op = "none" /\ cmd = [st |-> "none"] /\ opin = <<>>

NextCtrl ==
    \/ \E gain \in Gains : set_proportional_gain(gain)
    \/ \E vel \in Twists : move_at_speed1(vel)
    \/ \E vel \in Twists, redundant \in JointArguments : move_at_speed(vel, redundant)
    \/ \E y \in JointArguments, U \in JointMatrices : solve_joint_control(y, U)
    \/ \E pos \in JointArguments : move_to_position(pos)
    \/ \E pose \in TargetPoses : move_to_pose1(pose)
    \/ \E pose \in TargetPoses, redundancy \in JointArguments : move_to_pose(pose, redundancy)
    \/ \E pose \in TargetPoses, vel \in Twists : track_cartesian_trajectory1(pose, vel)
    \/ \E pose \in TargetPoses, vel \in Twists, redundant \in JointArguments :
          track_cartesian_trajectory(pose, vel, redundant)
    \/ \E pos \in JointArguments, vel \in JointArguments : track_joint_trajectory(pos, vel)
    \/ \E pos \in JointArguments, vel \in JointArguments, acc \in JointArguments :
          track_joint_trajectory_acc(pos, vel, acc)
    \/ LoopHead
    \/ Shrink
    \/ Update
    \/ Return
    \/ Deliver
    \/ Consume

SpecCtrl == InitCtrl /\ [][NextCtrl]_vars

\* the gain and the joint-space control laws that use it
NextGain ==
    \/ \E gain \in Gains : set_proportional_gain(gain)
    \/ \E pos \in JointArguments : move_to_position(pos)
    \/ \E pos \in JointArguments, vel \in JointArguments : track_joint_trajectory(pos, vel)
    \/ Consume

SpecGain == InitCtrl /\ [][NextGain]_vars

---------------------------------------------------------------------------
(* The helpers and the joint-space laws, over the joint states             *)

Scalars == { -Half, 0, Half, Unit }

\* joint positions strictly between the position limits
Positions == { -NineTenths, -Half, 0, Half, NineTenths }

Velocities == { -Half, 0, Half }

\* right-hand sides and references, inside and outside the speed limits
JointTargets ==
    { ZeroVec(n), [i \in 1..n |-> Half], [i \in 1..n |-> -Unit],
      [i \in 1..n |-> 3 * Unit], ZeroVec(n + 1) }

InitJoint ==
    /\ QPInit
    /\ n \in { TaskDim, TaskDim + 1 }
    /\ k = Unit
    /\ q \in [1..n -> Positions]
    /\ \E v0 \in Velocities : qdot = [i \in 1..n |-> v0]
    /\ J = [r \in 1..TaskDim |-> [c \in 1..n |-> IF c = r THEN Unit ELSE Half]]
    /\ endpoint = Home
    /\ lim = Limits
    /\ joint = <<>>
    /\ op = "none" /\ cmd = [st |-> "none"] /\ opin = <<>>

NextJoint ==
    \/ \E scalar \in Scalars : call_singularity_avoidance(scalar)
    \/ \E i \in 0..(n - 1) : call_get_joint_penalty(i)
    \/ \E i \in 0..(n - 1) : call_get_speed_limit(i)
    \/ \E y \in JointTargets, U \in JointMatrices : solve_joint_control(y, U)
    \/ \E pos \in JointTargets : move_to_position(pos)
    \/ \E pos \in JointTargets, vel \in JointTargets : track_joint_trajectory(pos, vel)
    \/ Consume

SpecJoint == InitJoint /\ [][NextJoint]_vars

---------------------------------------------------------------------------
(* The speed limits over joints of several makes, inside and outside       *)
(* their position limits                                                   *)

\* position, speed and acceleration limits and time steps, all positive
LimitChoices ==
    { Limits,
      [p |-> <<-Unit, 2 * Unit>>, v |-> 2 * Unit, a |-> 4 * Unit, dt |-> Unit \div 10],
      [p |-> <<Half, Unit>>, v |-> Half, a |-> Unit, dt |-> Unit],
      [p |-> <<-2 * Unit, -Unit>>, v |-> 3 * Unit, a |-> Unit \div 10, dt |-> Unit \div 100] }

\* joint positions on both sides of every limit, and on the limits
PositionsAbout ==
    { -3 * Unit, -2 * Unit, -(3 * Unit) \div 2, -Unit, -NineTenths, -Half, 0,
      Half,
      NineTenths, Unit, 2 * Unit, 3 * Unit }

\* targets of move_to_position on both sides of the positions
PositionTargets ==
    { [i \in 1..n |-> v] : v \in { -4 * Unit, -(3 * Unit) \div 2, -Unit + 1, 0,
                                   Half + 1, Unit, 4 * Unit } }

InitLimits ==
    /\ QPInit
    /\ n = TaskDim
    /\ k \in { Unit \div 100, Half, 2 * Unit }
    /\ q \in [1..n -> PositionsAbout]
    /\ qdot = ZeroVec(n)
    /\ J = [r \in 1..TaskDim |-> [c \in 1..n |-> IF c = r THEN Unit ELSE Half]]
    /\ endpoint = Home
    /\ lim \in LimitChoices
    /\ joint = <<>>
    /\ op = "none" /\ cmd = [st |-> "none"] /\ opin = <<>>

NextLimits ==
    \/ \E i \in 0..(n - 1) : call_get_speed_limit(i)
    \/ \E pos \in PositionTargets : move_to_position(pos)
    \/ Consume

SpecLimits == InitLimits /\ [][NextLimits]_vars

---------------------------------------------------------------------------
(* Every operation that reads the state of the controller                  *)

\* arguments of the right size and of the wrong size
FrameArguments == { [i \in 1..n |-> Half], ZeroVec(n + 1) }

FrameTwists == { [i \in 1..TaskDim |-> Half] }

NextFrame ==
    \/ \E gain \in { 0, 2 * Unit } : set_proportional_gain(gain)
    \/ \E vel \in FrameTwists : move_at_speed1(vel)
    \/ \E vel \in FrameTwists, redundant \in FrameArguments :
          move_at_speed(vel, redundant)
    \/ \E y \in FrameArguments, U \in { Identity(n), Identity(n + 1) } :
          solve_joint_control(y, U)
    \/ \E pos \in FrameArguments : move_to_position(pos)
    \/ \E pose \in TargetPoses : move_to_pose1(pose)
    \/ \E pose \in TargetPoses, redundancy \in FrameArguments :
          move_to_pose(pose, redundancy)
    \/ \E pose \in TargetPoses, vel \in FrameTwists :
          track_cartesian_trajectory1(pose, vel)
    \/ \E pose \in TargetPoses, vel \in FrameTwists, redundant \in FrameArguments :
          track_cartesian_trajectory(pose, vel, redundant)
    \/ \E pos \in FrameArguments, vel \in FrameArguments :
          track_joint_trajectory(pos, vel)
    \/ \E desired \in TargetPoses : call_get_pose_error(desired)
    \/ \E i \in 0..(n - 1) : call_get_speed_limit(i)
    \/ \E i \in 0..(n - 1) : call_get_joint_penalty(i)
    \/ \E scalar \in { 0, Half } : call_singularity_avoidance(scalar)
    \/ LoopHead
    \/ Shrink
    \/ Update
    \/ Return
    \/ Deliver
    \/ Consume

SpecFrame == InitCtrl /\ [][NextFrame]_vars

---------------------------------------------------------------------------
(* The same call of solve made twice on one solver                         *)

\* the user has chosen the arguments of the two calls
InitRepeat ==
    /\ QPInit
    /\ n = 1 /\ k = Unit /\ q = <<0>> /\ qdot = <<0>> /\ J = <<<<Unit>>>>
    /\ endpoint = <<>> /\ lim = Limits
    /\ joint = <<>>
    /\ op = "none" /\ cmd = [st |-> "none"]
    /\ \E p \in SolveCalls \cup SolveMisshapen : opin = p

\* solve(H,f,B,c,x0) is called with the chosen arguments, a first and a
\* second time
RepeatSolve ==
    /\ op \in {"none", "first"}
    /\ op = "first" => cmd.st # "none"
    /\ solve(opin.H, opin.f, opin.B, opin.c, opin.x0)
    /\ op' = IF op = "none" THEN "first" ELSE "second"
    /\ UNCHANGED <<n, k, q, qdot, J, endpoint, lim, joint, cmd, opin>>

\* the user keeps what the first call returned; a call that aborted the
\* program is not followed by a second one
Remember ==
    /\ pc = "done" /\ op = "first" /\ cmd.st = "none"
    /\ status # "fault"
    /\ cmd' = [st |-> status, val |-> ret, nonfinite |-> nonfinite]
    /\ Discard
    /\ UNCHANGED <<n, k, q, qdot, J, endpoint, lim, joint, op, opin>>

NextRepeat ==
    \/ RepeatSolve
    \/ LoopHead
    \/ Shrink
    \/ Update
    \/ Return
    \/ Remember

SpecRepeat == InitRepeat /\ [][NextRepeat]_vars

---------------------------------------------------------------------------
(* A redundant arm moved at a given speed with no redundant task           *)

\* twists within and beyond what the speed limits allow
RedundantTwists == [1..TaskDim -> { -2 * Unit, -Unit, Half }]

InitRedundant ==
    /\ QPInit
    /\ n = TaskDim + 1
    /\ k = Unit
    /\ \E q0 \in { -NineTenths, 0, Half } : q = [i \in 1..n |-> q0]
    /\ \/ \E v0 \in Velocities : qdot = [i \in 1..n |-> v0]
       \/ qdot = [i \in 1..n |-> IF i = 1 THEN Half ELSE -Half]
    /\ J = [r \in 1..TaskDim |-> [c \in 1..n |-> IF c = r THEN Unit ELSE Half]]
    /\ endpoint = Home
    /\ lim = Limits
    /\ joint = <<>>
    /\ op = "none" /\ cmd = [st |-> "none"] /\ opin = <<>>

NextRedundant ==
    \/ \E vel \in RedundantTwists : move_at_speed(vel, ZeroVec(n))
    \/ LoopHead
    \/ Shrink
    \/ Update
    \/ Return
    \/ Deliver
    \/ Consume

SpecRedundant == InitRedundant /\ [][NextRedundant]_vars

---------------------------------------------------------------------------
(* An arm that is not redundant moved at a given speed                     *)

\* twists within and far beyond what the speed limits allow
PoseOnlyTwists == [1..TaskDim -> { -2 * Unit, Half, 6 * Unit }]

InitNonRedundant == InitCtrl /\ n = TaskDim

NextNonRedundant ==
    \/ \E vel \in PoseOnlyTwists, redundant \in JointArguments :
          move_at_speed(vel, redundant)
    \/ LoopHead
    \/ Shrink
    \/ Update
    \/ Return
    \/ Deliver
    \/ Consume

SpecNonRedundant == InitNonRedundant /\ [][NextNonRedundant]_vars

---------------------------------------------------------------------------
(* get_pose_error on every pair of poses                                   *)

InitPose ==
    /\ QPInit
    /\ n = 1 /\ k = Unit /\ q = <<0>> /\ qdot = <<0>> /\ J = <<<<Unit>>>>
    /\ endpoint \in Poses
    /\ lim = Limits
    /\ joint = <<>>
    /\ op = "none" /\ cmd = [st |-> "none"]
    /\ \E desired \in Poses : opin = [desired |-> desired]

PoseError ==
    /\ op = "none"
    /\ op' = "get_pose_error"
    /\ cmd' = Vector(get_pose_error(opin.desired, get_endpoint_pose))
    /\ UNCHANGED <<n, k, q, qdot, J, endpoint, lim, joint, opin>>
    /\ UNCHANGED qpvars

NextPose == PoseError

SpecPose == InitPose /\ [][NextPose]_vars

---------------------------------------------------------------------------
(* Joint (src/Model/include/Joint.h): update_state                         *)

\* A joint is [isFixed, isRevolute, positionLimit, localAxis, offset, pose,
\* axis].  Its axis is a coordinate axis and a revolute joint is turned by
\* quarter turns, so that every rotation matrix has integer entries.

\* a quarter turn, pi/2
QuarterTurn == (157 * Unit) \div 100

\* cos and sin of a number of quarter turns
Cos4(t) == IF t % 4 = 0 THEN 1 ELSE IF t % 4 = 2 THEN -1 ELSE 0
Sin4(t) == IF t % 4 = 1 THEN 1 ELSE IF t % 4 = 3 THEN -1 ELSE 0

\* the rotation by t quarter turns about the unit vector a: the rotation of
\* the quaternion (cos(angle/2), sin(angle/2)*a)
AxisTurn(a, t) ==
    LET cross == << <<0, -a[3], a[2]>>, <<a[3], 0, -a[1]>>, <<-a[2], a[1], 0>> >>
    IN  [i \in 1..3 |-> [j \in 1..3 |->
            (IF i = j THEN Cos4(t) ELSE 0) + (1 - Cos4(t)) * a[i] * a[j]
              + Sin4(t) * cross[i][j]]]

\* R*v for a rotation matrix R
Rotate(R, v) == [i \in 1..3 |-> R[i][1] * v[1] + R[i][2] * v[2] + R[i][3] * v[3]]

\* Pose::operator*: the pose b seen from the pose a
PoseProduct(a, b) ==
    [t |-> VecAdd(a.t, Rotate(a.R, b.t)),
     R |-> [i \in 1..3 |-> [j \in 1..3 |->
              a.R[i][1] * b.R[1][j] + a.R[i][2] * b.R[2][j] + a.R[i][3] * b.R[3][j]]]]

\* the pose added by the position of the joint: a turn about the local axis
\* of a revolute joint, a shift along the local axis of a prismatic one
JointMotion(jt, position) ==
    IF jt.isRevolute
    THEN [t |-> <<0, 0, 0>>, R |-> AxisTurn(jt.localAxis, Div(position, QuarterTurn))]
    ELSE [t |-> [i \in 1..3 |-> position * jt.localAxis[i]], R |-> Home.R]

\* the position is refused only beyond a limit, not on it
RefusedBeyondLimit(jt, position) ==
    \/ jt.isFixed
    \/ position < jt.positionLimit[1]
    \/ position > jt.positionLimit[2]

\* the tests that make update_state return false
Refused(jt, position) ==
    \/ jt.isFixed
    \/ position <= jt.positionLimit[1]
    \/ position >= jt.positionLimit[2]

\* the joint after update_state(previousPose, position) was not refused
Updated(jt, previousPose, position) ==
    LET origin == PoseProduct(previousPose, jt.offset)
    IN  [jt EXCEPT !.pose = PoseProduct(origin, JointMotion(jt, position)),
                   !.axis = Rotate(origin.R, jt.localAxis)]

update_state(previousPose, position) ==
    /\ pc = "idle" /\ op = "none"
    /\ op' = "update_state"
    /\ opin' = [previousPose |-> previousPose, position |-> position, joint |-> joint]
    /\ IF Refused(joint, position)
       THEN /\ cmd' = [st |-> "bool", val |-> FALSE]
            /\ UNCHANGED joint
       ELSE /\ cmd' = [st |-> "bool", val |-> TRUE]
            /\ joint' = Updated(joint, previousPose, position)
    /\ UNCHANGED <<n, k, q, qdot, J, endpoint, lim, qpvars>>

\* poses of the parent joint and offsets of the joint
LinkPoses ==
    { Home,
      [t |-> <<Unit, 0, 2 * Unit>>, R |-> <<<<0, 1, 0>>, <<0, 0, 1>>, <<1, 0, 0>>>>] }

\* the joints the constructor accepts: lower limit below upper limit.  Before
\* the first update the pose is the default one and the axis is not
\* initialised.
Joints ==
    { [isFixed |-> type = "fixed", isRevolute |-> type # "prismatic",
       positionLimit |-> limits, localAxis |-> axis, offset |-> offset,
       pose |-> Home, axis |-> held] :
        type \in {"revolute", "prismatic", "fixed"},
        limits \in { <<-2 * QuarterTurn, 2 * QuarterTurn>>, <<0, 2 * QuarterTurn>> },
        axis \in { <<0, 0, 1>>, <<1, 0, 0>> },
        offset \in LinkPoses,
        held \in { <<0, 0, 0>>, <<7, 7, 7>> } }

\* positions below, on, between, and above the limits
JointPositions == { t * QuarterTurn : t \in -3..3 }

InitModel ==
    /\ QPInit
    /\ n = 1 /\ k = Unit /\ q = <<0>> /\ qdot = <<0>> /\ J = <<<<Unit>>>>
    /\ endpoint = <<>> /\ lim = Limits
    /\ op = "none" /\ cmd = [st |-> "none"] /\ opin = <<>>
    /\ joint \in Joints

NextModel ==
    \/ \E previousPose \in LinkPoses, position \in JointPositions :
          update_state(previousPose, position)
    \/ Consume

SpecModel == InitModel /\ [][NextModel]_vars

---------------------------------------------------------------------------
(* Properties of QPSolver                                                  *)

Feasible(B, c, xx) == \A j \in 1..Rows(B) : Dot(B[j], xx) >= c[j]

WithinBox(xx, xMin, xMax) ==
    \A i \in 1..Len(xx) : xMin[i] <= xx[i] /\ xx[i] <= xMax[i]

SolveReturned == pc = "done" /\ entry = "solve"

\* C1: every call of solve(H,f,B,c,x0) with consistent shapes returns, for any
\* initial guess x0, an x with B*x >= c in every row.
C1_SolveResultFeasible ==
    (SolveReturned /\ SolveShapesOK(arg.H, arg.f, arg.B, arg.c, arg.x0)
        /\ Cols(arg.B) = Len(arg.x0))
    => (status = "returned" /\ ~nonfinite /\ Feasible(arg.B, arg.c, ret))

\* C2: every call of least_squares(y,A,W,xMin,xMax,x0) with consistent shapes
\* and xMin <= xMax returns an x with xMin(i) <= x(i) <= xMax(i) for every i.
C2_BoxResultWithinBounds ==
    (pc = "done" /\ entry = "least_squares_box"
        /\ LeastSquaresBoxShapesOK(arg.y, arg.A, arg.W, arg.xMin, arg.xMax, arg.x0)
        /\ \A i \in 1..Len(arg.xMin) : arg.xMin[i] <= arg.xMax[i])
    => (status = "returned" /\ ~nonfinite /\ WithinBox(ret, arg.xMin, arg.xMax))

\* one of the four shape conditions on the arguments of solve does not hold
SolveMismatch(a) ==
    \/ Rows(a.H) # Len(a.x0) \/ Cols(a.H) # Len(a.x0)
    \/ Len(a.f) # Len(a.x0)
    \/ Cols(a.B) # Len(a.x0)
    \/ Len(a.c) # Rows(a.B)

\* C3: solve(H,f,B,c,x0) checks that H is n x n, f has n entries, B has n
\* columns and c has as many entries as B has rows; when one of the four
\* conditions is violated it returns x0 unchanged and does not fault.
C3_SolveMismatchReturnsX0 ==
    (SolveReturned /\ SolveMismatch(arg)) => (status = "returned" /\ ret = arg.x0)

\* an argument of a least_squares overload has the wrong size
LeastSquaresMismatch(e, a) ==
    CASE e = "least_squares" ->
           \/ Len(a.y) # Rows(a.A) \/ Len(a.x0) # Cols(a.A)
           \/ Rows(a.W) # Rows(a.A) \/ Cols(a.W) # Rows(a.A)
      [] e = "least_squares_box" ->
           \/ Len(a.y) # Rows(a.A) \/ Len(a.x0) # Cols(a.A)
           \/ Rows(a.W) # Rows(a.A) \/ Cols(a.W) # Rows(a.A)
           \/ Len(a.xMin) # Cols(a.A) \/ Len(a.xMax) # Cols(a.A)
      [] e = "least_squares_eq" ->
           \/ Len(a.xd) # Cols(a.A) \/ Len(a.y) # Rows(a.A) \/ Len(a.x0) # Cols(a.A)
           \/ Rows(a.W) # Cols(a.A) \/ Cols(a.W) # Cols(a.A)
      [] e = "least_squares_eq_box" ->
           \/ Len(a.xd) # Cols(a.A) \/ Len(a.y) # Rows(a.A) \/ Len(a.x0) # Cols(a.A)
           \/ Rows(a.W) # Cols(a.A) \/ Cols(a.W) # Cols(a.A)
           \/ Len(a.xMin) # Cols(a.A) \/ Len(a.xMax) # Cols(a.A)
      [] OTHER -> FALSE

\* C4: every least_squares overload validates the size of each of its
\* arguments (y, A, W, xd, x0 and, where present, xMin and xMax) and on a
\* mismatch returns the caller's x0 unchanged: no zero vector, no fault.
C4_LeastSquaresMismatchReturnsX0 ==
    (pc = "done" /\ LeastSquaresMismatch(entry, arg))
    => (status = "returned" /\ ret = arg.x0)

\* C8: every call of solve terminates: the loop runs at most `steps`
\* iterations, it is left earlier exactly when alpha*|dx| < tol, the step-size
\* loop ends after finitely many shrinks, and the last iterate is returned
\* with no failure signal.
C8_SolveTerminates ==
    /\ [](it <= steps)
    /\ [][(pc = "shrink" /\ pc' = "return") => Mul(alpha, Norm(dx)) < tol]_vars
    /\ [][(pc = "shrink" /\ pc' = "loop") => ~(~nonfinite /\ Mul(alpha, Norm(dx)) < tol)]_vars
    /\ [][(pc = "return" /\ pc' = "done") => (status' = "returned" /\ ret' = Extract(entry, arg, x))]_vars
    /\ (pc = "shrink") ~> (pc # "shrink")
    /\ (pc \in {"loop", "shrink", "return"}) ~> (pc = "done" /\ status = "returned")

\* a solve that left its loop early, after at least one iteration
C8_Witness ==
    /\ pc = "done" /\ entry = "solve" /\ status = "returned"
    /\ 0 < it /\ it < steps

---------------------------------------------------------------------------
(* Properties of SerialKinematicControl                                    *)

\* the last control call was given a vector or a matrix of the wrong size
WrongSized ==
    CASE op \in {"move_at_speed", "move_to_pose", "track_cartesian_trajectory"} ->
           Len(opin.redundant) # n
      [] op = "solve_joint_control" ->
           Len(opin.y) # n \/ Rows(opin.U) # n \/ Cols(opin.U) # n
      [] op = "move_to_position" -> Len(opin.pos) # n
      [] op = "track_joint_trajectory" -> Len(opin.pos) # n \/ Len(opin.vel) # n
      [] op = "track_joint_trajectory_acc" ->
           Len(opin.pos) # n \/ Len(opin.vel) # n \/ Len(opin.acc) # n
      [] OTHER -> FALSE

\* C5: every entry point of the control law (move_at_speed, move_to_position,
\* move_to_pose, track_cartesian_trajectory, both track_joint_trajectory
\* overloads, solve_joint_control) called with an input of the wrong size
\* returns 0.9 times the current joint velocities.
C5_MismatchReturnsDamped ==
    (WrongSized /\ cmd # Pending) => cmd = Vector(Damped)

\* C6: set_proportional_gain(0) returns false and the stored gain k keeps the
\* value it had before the call.
C6_ZeroGainRejected ==
    (op = "set_proportional_gain" /\ opin.gain = 0)
    => (cmd = [st |-> "bool", val |-> FALSE] /\ k = opin.k)

\* the zero gain was refused after another gain had been set
C6_Witness ==
    /\ op = "set_proportional_gain" /\ opin.gain = 0
    /\ opin.k = 2 * Unit /\ k = 2 * Unit

\* C7: set_proportional_gain(g) with g < 0 stores k = -g and returns true;
\* with g > 0 it stores k = g and returns true.
C7_GainMagnitudeStored ==
    (op = "set_proportional_gain" /\ opin.gain # 0)
    => /\ cmd = [st |-> "bool", val |-> TRUE]
       /\ opin.gain < 0 => k = -opin.gain
       /\ opin.gain > 0 => k = opin.gain

\* a negative gain was stored as its magnitude
C7_Witness ==
    /\ op = "set_proportional_gain" /\ opin.gain = -2 * Unit
    /\ opin.k = Half /\ k = 2 * Unit

\* the quaternions get_pose_error forms from its last arguments
LastQd == QuaternionOf(opin.desired.R)
LastQa == QuaternionOf(endpoint.R)
LastQe == QProduct(LastQd, QConjugate(LastQa))

\* C9: get_pose_error(desired, actual) forms qe = qd*conj(qa) and negates the
\* vector part of qe exactly when dot(qd,qa) <= 0; when dot(qd,qa) > 0 the
\* orientation error is the vector part of qe as it is.
C9_NegatedWhenDotNotPositive ==
    op = "get_pose_error"
    => Tail_(cmd.val, 3) = IF QDot(LastQd, LastQa) <= 0 THEN VecNeg(QVec(LastQe))
                                                        ELSE QVec(LastQe)

\* C10: get_pose_error(A,B) = -get_pose_error(B,A), in the translation part
\* and in the orientation part: both calls take the same branch on the sign of
\* dot(qd,qa).
C10_PoseErrorAntisymmetric ==
    op = "get_pose_error"
    => /\ cmd.val = get_pose_error(opin.desired, endpoint)
       /\ cmd.val = VecNeg(get_pose_error(endpoint, opin.desired))

\* an error between poses that differ in place and in orientation, on the
\* branch dot(qd,qa) <= 0
C10_Witness ==
    /\ op = "get_pose_error"
    /\ opin.desired.t # endpoint.t
    /\ QDot(LastQd, LastQa) <= 0
    /\ QVec(LastQe) # <<0, 0, 0>>

---------------------------------------------------------------------------
(* Properties of the helpers and of the joint-space laws                   *)

\* C11: singularity_avoidance(scalar) returns a vector of n entries whose
\* first entry is zero for every scalar; for scalar <= 0 every entry is zero;
\* and the call changes nothing of the controller: the gain, the joint state
\* and the limits are after the call what they were before it.
C11_GradientFirstEntryZero ==
    /\ [](op = "singularity_avoidance" =>
            /\ Len(cmd.val) = n
            /\ cmd.val[1] = 0
            /\ (opin.scalar <= 0 => \A i \in 1..n : cmd.val[i] = 0))
    /\ [][op' = "singularity_avoidance" =>
            UNCHANGED <<n, k, q, qdot, J, endpoint, lim>>]_vars

\* a positive scalar gave a gradient that is not zero on a later joint
C11_Witness ==
    /\ op = "singularity_avoidance" /\ opin.scalar > 0
    /\ n >= 2 /\ cmd.val[1] = 0 /\ cmd.val[2] # 0

\* the sign of the gradient of the penalty function of joint i: the joint is
\* above (1) or below (-1) the middle of its range, and the sign of its velocity
TowardLimit(i) ==
    Sign(2 * q[i + 1] - pLim(i)[2] - pLim(i)[1]) * Sign(qdot[i + 1])

\* range^2/(4*upper*lower) of joint i
ChanDubey(i) ==
    FDiv(Mul(pLim(i)[2] - pLim(i)[1], pLim(i)[2] - pLim(i)[1]),
         Mul(4 * (pLim(i)[2] - q[i + 1]), q[i + 1] - pLim(i)[1]))

\* C12 as stated: get_joint_penalty(i) returns exactly 1.0 when the sign of the
\* joint's velocity opposes the gradient toward the limit, and in every other
\* case range^2/(4*upper*lower), which is at least 1 between the limits.
C12_PenaltyUnlessOpposed ==
    op = "get_joint_penalty" =>
        IF TowardLimit(opin.i) < 0
        THEN cmd.val = Unit
        ELSE cmd.val = ChanDubey(opin.i) /\ cmd.val >= Unit

\* C12 amended: get_joint_penalty(i) returns range^2/(4*upper*lower), which is
\* at least 1 between the limits, when the gradient times the velocity is
\* positive (the joint moves toward a limit), and exactly 1.0 in every other
\* case: moving away, at rest, or in the middle of the range.
C12_PenaltyWhenApproaching ==
    op = "get_joint_penalty" =>
        IF TowardLimit(opin.i) > 0
        THEN cmd.val = ChanDubey(opin.i) /\ cmd.val >= Unit
        ELSE cmd.val = Unit

\* a joint moving toward its limit was given a penalty above 1
C12_Witness ==
    /\ op = "get_joint_penalty" /\ TowardLimit(opin.i) > 0
    /\ cmd.val > Unit

\* solve_joint_control was called with y and U of the right size
JointControlSolved ==
    /\ op = "solve_joint_control"
    /\ Len(opin.y) = n /\ Rows(opin.U) = n /\ Cols(opin.U) = n

Quotient(i) ==
    FDiv(opin.y[i] - Sum([j \in 1..n |->
                            IF j > i THEN Mul(opin.U[i][j], cmd.val[j]) ELSE 0]),
         opin.U[i][i])

\* C14: every value solve_joint_control resolves is clamped: a quotient inside
\* [lower_i, upper_i] is returned as it is, one below is returned as lower_i
\* and one above as upper_i, so that within wide limits the result is the
\* solution of U*qdot = y by back substitution.
C14_ResolvedValuesClamped ==
    JointControlSolved =>
        \A i \in 1..n :
            opin.U[i][i] # 0 =>
                cmd.val[i] = Clamp(Quotient(i), get_speed_limit(i - 1).lower,
                                   get_speed_limit(i - 1).upper)

\* v brought into the speed limits of joint i (counted from 1)
WithinSpeedLimits(v, i) ==
    Min(Max(v, get_speed_limit(i - 1).lower), get_speed_limit(i - 1).upper)

\* C15: with arguments of the right size move_to_position(pos) returns
\* k*(pos_i - q_i) and track_joint_trajectory(pos,vel) returns
\* vel_i + k*(pos_i - q_i), each brought into [lower_i, upper_i]; no entry of
\* the command is outside the speed limits of its joint.
C15_JointCommandsClamped ==
    /\ (op = "move_to_position" /\ Len(opin.pos) = n) =>
            \A i \in 1..n :
                /\ cmd.val[i] = WithinSpeedLimits(Mul(k, opin.pos[i] - q[i]), i)
                /\ get_speed_limit(i - 1).lower <= cmd.val[i]
                /\ cmd.val[i] <= get_speed_limit(i - 1).upper
    /\ (op = "track_joint_trajectory" /\ Len(opin.pos) = n /\ Len(opin.vel) = n) =>
            \A i \in 1..n :
                /\ cmd.val[i] =
                      WithinSpeedLimits(opin.vel[i] + Mul(k, opin.pos[i] - q[i]), i)
                /\ get_speed_limit(i - 1).lower <= cmd.val[i]
                /\ cmd.val[i] <= get_speed_limit(i - 1).upper

\* a tracking command was cut down to the upper speed limit of a joint
C15_Witness ==
    /\ op = "track_joint_trajectory" /\ Len(opin.pos) = n /\ Len(opin.vel) = n
    /\ \E i \in 1..n :
          /\ opin.vel[i] + Mul(k, opin.pos[i] - q[i]) > get_speed_limit(i - 1).upper
          /\ cmd.val[i] = get_speed_limit(i - 1).upper

---------------------------------------------------------------------------
(* Properties of move_at_speed                                             *)

\* move_at_speed(vel, 0) has returned on a redundant arm whose speed limits
\* are symmetric
RedundantMoved ==
    /\ op = "move_at_speed" /\ cmd # Pending
    /\ n > TaskDim /\ opin.redundant = ZeroVec(n)
    /\ SpeedLower = VecNeg(SpeedUpper)

\* the command produces the twist, up to the tolerance of the solver
TwistProduced ==
    /\ cmd.st = "vector"
    /\ \A r \in 1..TaskDim : Abs(MatVec(J, cmd.val)[r] - opin.vel[r]) <= tol

\* the joint velocities of least norm that produce the twist
LeastNorm(vel) == MatVec(get_pseudoinverse(J), vel)

---------------------------------------------------------------------------
(* Properties of QPSolver::solve, one call after another                   *)

---------------------------------------------------------------------------
(* Properties of the controller as a whole                                 *)

\* C18: the move_* and track_* operations and the helpers get_pose_error,
\* get_speed_limit, get_joint_penalty, singularity_avoidance and
\* solve_joint_control only read the state of the controller: the joint
\* positions and velocities, the limits, dt and the gain k are after every
\* step of such a call what they were before it, whether the call succeeds or
\* takes an error path.  Only set_proportional_gain changes the gain.
C18_ControlStateOnlyRead ==
    [][\/ (op = "none" /\ op' = "set_proportional_gain"
            /\ UNCHANGED <<n, q, qdot, J, endpoint, lim>>)
       \/ UNCHANGED <<n, k, q, qdot, J, endpoint, lim>>]_vars

\* a Cartesian tracking call came back with a command from the solver that
\* differs from the joint velocities
C18_Witness ==
    /\ op = "track_cartesian_trajectory" /\ cmd.st = "vector"
    /\ Len(opin.redundant) = n
    /\ cmd.val # qdot /\ cmd.val # Damped

---------------------------------------------------------------------------
(* Properties of the iterations of QPSolver::solve                         *)

\* C19: in every iteration of solve the step-size loop leaves alpha such that
\* d_j + alpha*B_j*dx > 0 for every constraint j, so that the iterate
\* x + alpha*dx that is accepted satisfies every constraint strictly.  Stated
\* for the calls that start strictly inside the constraints.
C19_AcceptedStepStrictlyFeasible ==
    [][(/\ pc = "shrink" /\ pc' = "loop"
        /\ \A j \in 1..Rows(qp.B) : Dot(qp.B[j], qp.x0) > qp.c[j]) =>
          /\ ~nonfinite
          /\ \A j \in 1..Rows(qp.B) :
                /\ d[j] + Mul(alpha, Dot(qp.B[j], dx)) > 0
                /\ Dot(qp.B[j], x') > qp.c[j]]_vars

\* an iteration of solve finds x on the wrong side of a constraint
ViolationFound ==
    /\ pc = "loop" /\ LoopContinues(it) /\ ~nonfinite
    /\ \E j \in 1..Rows(qp.B) : Dot(qp.B[j], x) - qp.c[j] < 0

\* C20: when an iteration finds a violated constraint (d_j < 0), x is put back
\* to the previous iterate, so that the step of that iteration starts from a
\* point that satisfies every constraint, and the violating point is never
\* the value returned: a start x0 that the first iteration finds in violation
\* is not what the call returns.
C20_RevertedToFeasiblePoint ==
    /\ [][(ViolationFound /\ pc' = "shrink") =>
            /\ x' = x_prev
            /\ \A j \in 1..Rows(qp.B) : Dot(qp.B[j], x') - qp.c[j] >= 0]_vars
    /\ []((/\ pc = "done" /\ status = "returned" /\ entry = "solve"
            /\ SolveShapesOK(qp.H, qp.f, qp.B, qp.c, qp.x0)
            /\ \E j \in 1..Rows(qp.B) : Dot(qp.B[j], qp.x0) - qp.c[j] < 0)
           => ret # qp.x0)

---------------------------------------------------------------------------
(* The Newton system of one iteration of solve                             *)

\* B_j*xx - c_j, the slack of constraint j at the point xx
Slack(j, xx) == Dot(qp.B[j], xx) - qp.c[j]

\* -uu*sum_{l <= j}((1/dd_l)*B_l'), the barrier part of the gradient
RECURSIVE BarrierGradient(_, _, _)
BarrierGradient(uu, dd, j) ==
    IF j = 0 THEN ZeroVec(Cols(qp.H))
    ELSE VecAdd(BarrierGradient(uu, dd, j - 1),
                VecScale(-FDiv(uu, dd[j]), qp.B[j]))

\* H + uu*sum_{l <= j}((1/dd_l^2)*B_l'*B_l)
RECURSIVE BarrierHessian(_, _, _)
BarrierHessian(uu, dd, j) ==
    IF j = 0 THEN qp.H
    ELSE MatAdd(BarrierHessian(uu, dd, j - 1),
                MatScale(HessianWeight(uu, dd[j]), Outer(qp.B[j], qp.B[j])))

\* the Newton step -I\g at the point xx, with weight uu and slacks dd
NewtonStep(uu, dd, xx) ==
    PartialPivLuSolve(BarrierHessian(uu, dd, Len(dd)),
        VecNeg(VecAdd(BarrierGradient(uu, dd, Len(dd)),
                      VecSub(MatVec(qp.H, xx), qp.f)))).x

\* an iteration of solve computes its Newton step with finite values
StepComputed == pc = "loop" /\ pc' = "shrink" /\ ~nonfinite /\ ~nonfinite'

\* the slacks are those of the point the step is taken from (a negative one
\* replaced by the small positive value)
SlacksOfStepPoint ==
    \A j \in 1..Len(d') :
        d'[j] = IF Slack(j, x') < 0 THEN DFloor ELSE Slack(j, x')

\* the weight grows by uMod once when a constraint is violated
WeightRaisedOnce ==
    u' = IF \E j \in 1..Len(d') : Slack(j, x) < 0 THEN Mul(u, uMod) ELSE u

\* one weight serves every constraint
OneWeight == dx' = NewtonStep(u', d', x')

\* C21: in each iteration of solve the gradient and the Hessian are computed
\* with one barrier weight u for all constraints and with the slacks of the
\* point the step is taken from, and a violation multiplies u by uMod once.
C21_NewtonSystemOfOnePoint ==
    [][StepComputed => SlacksOfStepPoint /\ WeightRaisedOnce /\ OneWeight]_vars


---------------------------------------------------------------------------
(* Properties of get_speed_limit                                           *)

\* joint i (from 0) lies within its position limits
WithinPositionLimits(i) == pLim(i)[1] <= q[i + 1] /\ q[i + 1] <= pLim(i)[2]

\* v is the largest, the smallest, of the three numbers
LargestOf(v, a, b, c) == v \in {a, b, c} /\ a <= v /\ b <= v /\ c <= v
SmallestOf(v, a, b, c) == v \in {a, b, c} /\ v <= a /\ v <= b /\ v <= c

\* get_speed_limit has returned, for a joint within its position limits
SpeedLimitGot ==
    op = "get_speed_limit" /\ cmd.st = "limits" /\ WithinPositionLimits(opin.i)

\* C22: get_speed_limit sets lower to the maximum of (lowerLimit - q)/dt,
\* -velLimit and -2*sqrt(accLimit*(q - lowerLimit)), and upper to the minimum
\* of (upperLimit - q)/dt, velLimit and 2*sqrt(accLimit*(upperLimit - q)), at
\* the current position q of the joint.
C22_SpeedLimitOfThreeTerms ==
    SpeedLimitGot =>
        LET qi == q[opin.i + 1]
            lo == lim.p[1]
            hi == lim.p[2]
        IN  /\ LargestOf(cmd.val.lower, FDiv(lo - qi, lim.dt), -lim.v,
                         -Mul(2 * Unit, Sqrt(Mul(lim.a, qi - lo))))
            /\ SmallestOf(cmd.val.upper, FDiv(hi - qi, lim.dt), lim.v,
                          Mul(2 * Unit, Sqrt(Mul(lim.a, hi - qi))))

\* the lower bound comes from braking and the upper one from the motor
C22_Witness ==
    /\ SpeedLimitGot
    /\ cmd.val.lower = -Mul(2 * Unit, Sqrt(Mul(lim.a, q[opin.i + 1] - lim.p[1])))
    /\ cmd.val.lower > -lim.v
    /\ cmd.val.lower > FDiv(lim.p[1] - q[opin.i + 1], lim.dt)
    /\ cmd.val.upper = lim.v

\* C24: for a joint within its position limits, with positive speed limit,
\* acceleration limit and time step, get_speed_limit yields
\* lower <= 0 <= upper: the speed interval contains zero.
C24_SpeedIntervalHoldsZero ==
    SpeedLimitGot /\ lim.v > 0 /\ lim.a > 0 /\ lim.dt > 0 =>
        cmd.val.lower <= 0 /\ 0 <= cmd.val.upper

\* the joint stands on a position limit and may only move off it
C24_Witness ==
    /\ SpeedLimitGot /\ lim.v > 0 /\ lim.a > 0 /\ lim.dt > 0
    /\ q[opin.i + 1] = lim.p[2]
    /\ cmd.val.upper = 0 /\ cmd.val.lower < 0

\* move_to_position has returned a command for joints within their limits
PositionCommanded ==
    /\ op = "move_to_position" /\ cmd.st = "vector" /\ Len(opin.pos) = n
    /\ k > 0
    /\ \A i \in 0..(n - 1) : WithinPositionLimits(i)

\* C27: with k > 0 and every joint within its position limits, each component
\* of the command of move_to_position is zero or has the sign of the position
\* error pos_i - q_i.
C27_CommandTowardTarget ==
    PositionCommanded =>
        \A i \in 1..n :
            cmd.val[i] = 0 \/ Sign(cmd.val[i]) = Sign(opin.pos[i] - q[i])

\* a command that the speed limits cut short, toward a target beyond a limit
C27_Witness ==
    /\ PositionCommanded
    /\ \E i \in 1..n :
          /\ cmd.val[i] > 0
          /\ cmd.val[i] < Mul(k, opin.pos[i] - q[i])
          /\ opin.pos[i] > lim.p[2]

---------------------------------------------------------------------------
(* The gain over sequences of calls                                        *)

\* a call of set_proportional_gain with a gain other than zero
NonZeroGainSet ==
    op = "none" /\ op' = "set_proportional_gain" /\ opin'.gain # 0

\* C26: starting from a positive gain, after any sequence of calls of
\* set_proportional_gain the stored gain k is strictly positive and is the
\* magnitude of the most recent argument other than zero (the initial gain
\* when there was none): k changes in no other step, and such a call always
\* stores the magnitude of its argument.
C26_GainOfLastNonZeroCall ==
    /\ [](k > 0)
    /\ [][(k' # k \/ NonZeroGainSet)
             => NonZeroGainSet /\ k' = Abs(opin'.gain)]_vars

\* a call with zero after a call that had changed the gain
C26_Witness ==
    /\ op = "set_proportional_gain" /\ opin.gain = 0
    /\ opin.k = Half /\ k = Half

---------------------------------------------------------------------------
(* solve entered from a strictly feasible point                            *)

\* solve is running, and its initial guess satisfied B*x0 > c in every row
StartedInside ==
    /\ pc \in {"loop", "shrink", "return"}
    /\ SolveShapesOK(qp.H, qp.f, qp.B, qp.c, qp.x0)
    /\ \A j \in 1..Rows(qp.B) : Dot(qp.B[j], qp.x0) > qp.c[j]

\* every iterate is a point that satisfies the constraints
IteratesFeasible ==
    StartedInside /\ pc = "loop" => ~nonfinite /\ Feasible(qp.B, qp.c, x)

\* the violation branch is not taken: no constraint is found violated
NoViolationFound == StartedInside => ~ViolationFound

\* the barrier weight changes by the factor beta, and in no other way
WeightOnlyDecays ==
    StartedInside /\ u' # u => pc = "shrink" /\ pc' = "loop" /\ u' = Mul(u, beta)

\* C23: when the initial guess x0 of solve is strictly feasible, every
\* iterate x satisfies B*x >= c, the violation branch is never taken and the
\* barrier weight u is only ever multiplied by beta.
C23_FeasibleStartStaysFeasible ==
    /\ [](IteratesFeasible /\ NoViolationFound)
    /\ [][WeightOnlyDecays]_vars

---------------------------------------------------------------------------
(* The initial guess move_at_speed hands to the solver                     *)

\* move_at_speed has called the constrained solver, which is running
SolverEntered ==
    /\ op \in {"move_at_speed", "move_at_speed1"} /\ cmd = Pending
    /\ pc \in {"loop", "shrink", "return"}

\* the joint velocities the solver starts from, and the bounds it was given:
\* c = [-xMax; xMin]
GuessOfSolver == Tail_(qp.x0, n)
BoundsOfSolver == [xMin |-> Tail_(qp.c, n), xMax |-> VecNeg(Head_(qp.c, n))]

\* C25: in every call of move_at_speed with a redundant task of the right
\* size, the initial guess handed to the constrained solver lies within the
\* speed bounds [xMin, xMax] passed as its constraints, for n <= 6 and for
\* n > 6 alike.
C25_InitialGuessWithinSpeedBounds ==
    SolverEntered =>
        WithinBox(GuessOfSolver, BoundsOfSolver.xMin, BoundsOfSolver.xMax)

---------------------------------------------------------------------------
(* Properties of Joint::update_state                                       *)

\* update_state has returned; opin.joint is the joint before the call
StateUpdated == op = "update_state" /\ cmd.st = "bool"

\* the position lies strictly between the limits of a joint that moves
Movable ==
    /\ ~opin.joint.isFixed
    /\ opin.joint.positionLimit[1] < opin.position
    /\ opin.position < opin.joint.positionLimit[2]

\* the pose of the joint is the one its position gives it: the origin is the
\* offset seen from the previous pose, turned about the axis by a revolute
\* joint and shifted along it by a prismatic one
PoseOfPosition ==
    LET origin == PoseProduct(opin.previousPose, opin.joint.offset)
        along  == Rotate(origin.R, opin.joint.localAxis)
    IN  /\ joint.axis = along
        /\ IF opin.joint.isRevolute
           THEN /\ joint.pose.t = origin.t
                /\ Rotate(joint.pose.R, opin.joint.localAxis) = along
                /\ (joint.pose.R = origin.R) =
                      (Div(opin.position, QuarterTurn) % 4 = 0)
           ELSE /\ joint.pose.R = origin.R
                /\ joint.pose.t =
                      VecAdd(origin.t, [i \in 1..3 |-> opin.position * along[i]])

\* C30: update_state(previousPose, position) returns false and leaves the
\* pose and the axis of the joint unchanged when the joint is fixed or when
\* position <= lower or position >= upper; it updates the pose and returns
\* true only for a joint that is not fixed with lower < position < upper.
C30_UpdateOnlyBetweenLimits ==
    StateUpdated =>
        IF Movable
        THEN cmd.val = TRUE /\ PoseOfPosition
        ELSE /\ cmd.val = FALSE
             /\ joint.pose = opin.joint.pose /\ joint.axis = opin.joint.axis

\* a joint that had been moved is asked to go to its upper limit, and stays
C30_Witness ==
    /\ StateUpdated /\ ~opin.joint.isFixed
    /\ opin.position = opin.joint.positionLimit[2]
    /\ cmd.val = FALSE
    /\ joint.pose # Home /\ joint.pose = opin.joint.pose

---------------------------------------------------------------------------
(* The redundant task of an arm that is not redundant                      *)

\* move_at_speed(vel, redundant) is called on an arm with n <= 6
PoseOnlyCalled == op = "none" /\ op' = "move_at_speed" /\ n <= TaskDim

\* C28: for an arm with n <= 6 the command of move_at_speed(vel, redundant)
\* does not depend on the values of the redundant task: the call does to the
\* solver, which computes the command, what the call with any other vector of
\* the right size does; a vector of the wrong size is refused with 0.9 times
\* the joint velocities.
C28_RedundantTaskIgnored ==
    [][PoseOnlyCalled =>
          IF Len(opin'.redundant) = n
          THEN \A other \in JointVectors : MoveAtSpeed(opin'.vel, other)
          ELSE /\ cmd' = [st |-> "vector",
                          val |-> [i \in 1..n |-> Mul(NineTenths, qdot[i])]]
               /\ pc' = "idle"]_vars

\* the command of a call whose redundant task was not zero has been returned
C28_Witness ==
    /\ op = "move_at_speed" /\ n <= TaskDim
    /\ Len(opin.redundant) = n /\ opin.redundant # ZeroVec(n)
    /\ pc = "idle" /\ cmd.st = "vector"

---------------------------------------------------------------------------
(* The barrier weight and its decay rate during one solve                  *)

\* the interior-point loop of solve has been entered and has not returned
InsideSolve ==
    /\ pc \in {"loop", "shrink", "return"}
    /\ SolveShapesOK(qp.H, qp.f, qp.B, qp.c, qp.x0)

\* the tuning parameters are as the solver expects them
TuningSound ==
    u0 > 0 /\ 0 < beta0 /\ beta0 < Unit /\ 0 < betaMod /\ betaMod < Unit /\ uMod > 0

\* C29: throughout one solve, with u0 > 0, 0 < beta0 < 1, 0 < betaMod < 1 and
\* uMod > 0, the barrier weight u stays strictly positive and the decay rate
\* beta never decreases and stays within [beta0, 1): a violation moves beta
\* toward 1, never onto it or past it.
C29_WeightPositiveDecayBelowOne ==
    /\ [](InsideSolve /\ TuningSound => u > 0 /\ beta0 <= beta /\ beta < Unit)
    /\ [][InsideSolve /\ InsideSolve' => beta' >= beta]_vars
    /\ [][InsideSolve /\ ViolationFound /\ pc' = "shrink" /\ beta < Unit - 1
             => beta' > beta]_vars

\* two iterations in a row have found a violation
C29_Witness ==
    /\ InsideSolve /\ TuningSound
    /\ beta > SlowedDecay(beta0) /\ u > 0

====
